---- MODULE Spec2Model ----
(***************************************************************************)
(* Verification model of the fraud middleware decision-and-detection core: *)
(*   api/utils/rate_limiter.py       TokenBucket, RateLimiter              *)
(*   api/models/rules.py             RulesEngine                           *)
(*   api/models/policy.py            PolicyEngine                          *)
(*   api/models/session_monitor.py   SessionMonitor (+ the session store)  *)
(*   api/routes/decision.py          make_decision, check_session_behavior *)
(*   api/routes/sessions.py          terminate_session endpoint            *)
(*   api/models/institute_security.py InstituteSecurityEngine              *)
(* Each component has its own specification (SpecRL, SpecRules, ...) over  *)
(* its own variables; the other variables stay unchanged.                  *)
(***************************************************************************)
EXTENDS Integers, Sequences, FiniteSets, TLC

VARIABLES
    now,              \* wall clock of the rate limiter, in seconds (time.time())
    buckets,          \* RateLimiter._buckets: source -> TokenBucket or NoBucket
    source_tiers,     \* RateLimiter._source_tiers: source -> tier or NoTier (defaultdict)
    blocked_until,    \* RateLimiter._blocked_until: source -> unblock time or NoTime
    violations,       \* RateLimiter._violations: source -> list of violation times
    rl_last,          \* the last RateLimiter call and what it returned
    seenViolations,   \* history: bucket-rejection times of a source since its last unblock/reset call, last 300 s
    seenBlockEnd,     \* history: end of the block that the third such rejection started
    rl_ticks,         \* number of clock advances taken (bounds the run)
    rl_calls,         \* number of check_rate_limit calls made (bounds the run)
    denied_users,     \* RulesEngine.denied_users
    denied_devices,   \* RulesEngine.denied_devices
    denied_ips,       \* RulesEngine.denied_ips
    denied_merchants, \* RulesEngine.denied_merchants
    velocity_tracker, \* RulesEngine.velocity_tracker: key -> list of timestamps (minutes)
    user_transaction_count, \* RulesEngine.user_transaction_count
    user_amounts,     \* RulesEngine.user_amounts: user -> list of the last amounts
    rule_last,        \* the last transaction evaluated and the RuleResult returned
    rule_log,         \* history: every evaluate call so far, and whether it was tracked
    rule_evals,       \* number of evaluate calls made (bounds the run)
    thresholds,       \* PolicyEngine.thresholds: name -> value, in hundredths
    policy_last,      \* the last PolicyEngine call and what it returned
    session_store,    \* session_behaviors table of the store: session id -> row
    cacheD,           \* _cache of the decision route's SessionMonitor: id -> entry
    cacheS,           \* _cache of the sessions route's SessionMonitor: id -> entry
    sess_now,         \* wall clock of the session monitors, in seconds
    sess_last,        \* the last request to a session-aware endpoint and its response
    everTerminated,   \* history: the store has held the session as terminated after a request
    session_events,   \* session_events table, session_terminated rows: session id -> rows
    sess_ticks,       \* number of clock advances taken (bounds the run)
    sess_requests,    \* number of decision requests made (bounds the run)
    sec_now,          \* wall clock of the security engine, in seconds (time.time())
    api_request_history,   \* InstituteSecurityEngine._api_request_history: source -> records
    failed_auth_tracking,  \* InstituteSecurityEngine._failed_auth_tracking: source -> times
    user_access_patterns,  \* InstituteSecurityEngine._user_access_patterns: source -> pattern
    security_events,  \* InstituteSecurityEngine._security_events, as the number of events kept
    blocked_sources,  \* InstituteSecurityEngine._blocked_sources
    sec_last,         \* the last monitor call and the event it returned
    auth_log,         \* history: source -> the monitor_authentication calls made, in order
    sec_ticks,        \* number of clock advances taken (bounds the run)
    sec_calls,        \* number of monitor calls made (bounds the run)
    rl_pool,          \* check_rate_limit calls in progress on the worker pool: worker -> frame
    sess_pool,        \* record_transaction calls in progress on the worker pool, and those recorded
    blocked_sources_table, \* blocked_sources table of the store: its rows, in insertion order
    store_last,       \* the last call on the block-list store and what it returned
    store_calls,      \* number of calls made on the block-list store (bounds the run)
    mw_last,          \* the last request the HTTP middleware served and how it answered
    mw_requests,      \* number of requests the middleware has served (bounds the run)
    rate_log,         \* history: the times at which a client's checks of cost 1 were allowed
    scorer_in,        \* the session snapshot and transaction context given to the scorer
    scorer_now,       \* the wall clock the scorer reads, in seconds
    scorer_last,      \* the last call of calculate_risk and what it returned
    scorer_ticks      \* number of clock advances taken (bounds the run)

rlVars == <<now, buckets, source_tiers, blocked_until, violations, rl_last,
            seenViolations, seenBlockEnd, rl_ticks, rl_calls>>

ruleVars == <<denied_users, denied_devices, denied_ips, denied_merchants,
              velocity_tracker, user_transaction_count, user_amounts,
              rule_last, rule_log, rule_evals>>

policyVars == <<thresholds, policy_last>>

sessVars == <<session_store, cacheD, cacheS, sess_now, sess_last, everTerminated, session_events,
              sess_ticks, sess_requests>>

secVars == <<sec_now, api_request_history, failed_auth_tracking, user_access_patterns,
             security_events, blocked_sources, sec_last, auth_log, sec_ticks, sec_calls>>

\* requests in progress on the worker pool
poolVars == <<rl_pool, sess_pool>>

\* the block list of the event store
storeVars == <<blocked_sources_table, store_last, store_calls>>

\* the HTTP middleware in front of the routes
mwVars == <<mw_last, mw_requests>>

\* the record a client keeps of its allowed checks
rateVars == <<rate_log>>

\* the behavioural scorer
scorerVars == <<scorer_in, scorer_now, scorer_last, scorer_ticks>>

vars == <<rlVars, ruleVars, policyVars, sessVars, secVars, poolVars, storeVars, mwVars, rateVars, scorerVars>>

\* what an operation of one component leaves alone
otherThanRL == <<ruleVars, policyVars, sessVars, secVars, poolVars, storeVars, mwVars, rateVars, scorerVars>>
otherThanRules == <<rlVars, policyVars, sessVars, secVars, poolVars, storeVars, mwVars, rateVars, scorerVars>>
otherThanPolicy == <<rlVars, ruleVars, sessVars, secVars, poolVars, storeVars, mwVars, rateVars, scorerVars>>
otherThanSession == <<rlVars, ruleVars, policyVars, secVars, poolVars, storeVars, mwVars, rateVars, scorerVars>>
otherThanPool == <<ruleVars, policyVars, sessVars, secVars, sess_pool, storeVars, mwVars, rateVars, scorerVars>>
otherThanSessPool == <<rlVars, ruleVars, policyVars, secVars, rl_pool, storeVars, mwVars, rateVars, scorerVars>>
otherThanStore == <<rlVars, ruleVars, policyVars, sessVars, secVars, poolVars, mwVars, rateVars, scorerVars>>
otherThanScorer == <<rlVars, ruleVars, policyVars, sessVars, secVars, poolVars, storeVars, mwVars,
                     rateVars>>
otherThanSec == <<rlVars, ruleVars, policyVars, sessVars, poolVars, storeVars, mwVars, rateVars, scorerVars>>

(***************************************************************************)
(* Bounds                                                                  *)
(***************************************************************************)
MaxRLTicks == 2          \* clock advances per run of the rate limiter
MaxRLCalls == 5          \* check_rate_limit calls per run

Sources == {"s1"}
\* check_rate_limit(tokens=...): one token, a full burst, more than a burst
Costs(cfg) == {1, cfg.burst_capacity, cfg.burst_capacity + 1}
RLDeltas == {1, 300}               \* seconds between two calls (0: no advance)

NoTime == -1
NoBucket == [capacity |-> 0, rpm |-> 0, tokens |-> 0, last_refill |-> NoTime]
NoTier == "none"

(***************************************************************************)
(* RateLimiter.__init__: tier table                                        *)
(***************************************************************************)
Tiers == {"free", "basic", "premium", "internal", "unlimited"}

tier_configs ==
    [t \in Tiers |->
        CASE t = "free"      -> [requests_per_minute |-> 20,     burst_capacity |-> 10,     block_duration_seconds |-> 300]
          [] t = "basic"     -> [requests_per_minute |-> 100,    burst_capacity |-> 30,     block_duration_seconds |-> 300]
          [] t = "premium"   -> [requests_per_minute |-> 500,    burst_capacity |-> 100,    block_duration_seconds |-> 300]
          [] t = "internal"  -> [requests_per_minute |-> 2000,   burst_capacity |-> 500,    block_duration_seconds |-> 600]
          [] t = "unlimited" -> [requests_per_minute |-> 999999, burst_capacity |-> 999999, block_duration_seconds |-> 0]]

DefaultTier == "basic"

\* Tiers the administrative call assigns in the explored runs; every other
\* source stays on the default tier.
AssignedTiers == {"free", "internal", "unlimited"}
ViolationWindow == 300
BlockThreshold == 3

\* Token amounts are kept in sixtieths of a token: refill_rate is
\* requests_per_minute / 60 tokens per second, so elapsed * rate is exact.
TokenUnit == 60

Min(a, b) == IF a < b THEN a ELSE b
Max(a, b) == IF a > b THEN a ELSE b

\* F applied to the value of x, x evaluated once
Then(x, F(_)) == CHOOSE y \in {F(z) : z \in {x}} : TRUE

\* TokenBucket.__init__
NewBucket(cfg, t) ==
    [capacity |-> cfg.burst_capacity, rpm |-> cfg.requests_per_minute,
     tokens |-> cfg.burst_capacity * TokenUnit, last_refill |-> t]

\* Refill without the cap at capacity
Refill_uncapped(b, t) ==
    [b EXCEPT !.tokens = b.tokens + (t - b.last_refill) * b.rpm,
              !.last_refill = t]

\* TokenBucket.consume, refill part
Refill(b, t) ==
    [b EXCEPT !.tokens = Min(b.capacity * TokenUnit, b.tokens + (t - b.last_refill) * b.rpm),
              !.last_refill = t]

\* consume without the test that enough tokens are available
consume_unchecked(b, cost, t) ==
    LET r == Refill(b, t) IN <<[r EXCEPT !.tokens = r.tokens - cost * TokenUnit], TRUE>>

\* TokenBucket.consume: <<bucket after the call, returned flag>>
consume(b, cost, t) ==
    LET r == Refill(b, t) IN
    IF r.tokens >= cost * TokenUnit
    THEN <<[r EXCEPT !.tokens = r.tokens - cost * TokenUnit], TRUE>>
    ELSE <<r, FALSE>>

\* check_rate_limit that keeps every violation it ever recorded
CleanViolations_keep(vs, t) == vs

\* check_rate_limit, "clean old violations"
CleanViolations(vs, t) ==
    LET Recent(x) == t - x < ViolationWindow IN SelectSeq(vs, Recent)

\* blocking only from the fourth violation on
ShouldBlock_late(vs) == Len(vs) > BlockThreshold

\* check_rate_limit, "check if should temporarily block"
ShouldBlock(vs) == Len(vs) >= BlockThreshold

\* the tier _source_tiers[source_id] yields (defaultdict: BASIC when absent)
TierOf(s) == IF source_tiers[s] = NoTier THEN DefaultTier ELSE source_tiers[s]

\* number of history entries inside the trailing window at time t
RecentCount(vs, t) == Cardinality({i \in 1..Len(vs) : t - vs[i] < ViolationWindow})

\* what a call other than check_rate_limit leaves in rl_last
RLResult(op, s, flag, fresh) ==
    [op |-> op, source |-> s, allowed |-> flag, reason |-> "none",
     path |-> "none", wasBlocked |-> FALSE, cost |-> 0, fresh |-> fresh]

\* history: unblock_source has lifted a block and no check was made since
Unblocked == rl_last.op /= "check" /\ rl_last.fresh

\* what check_rate_limit leaves in rl_last: its verdict, the cost asked for,
\* and whether it was the first check after a lifted block
CheckResult(s, flag, reason, path, wasBlocked, cost) ==
    [op |-> "check", source |-> s, allowed |-> flag, reason |-> reason,
     path |-> path, wasBlocked |-> wasBlocked, cost |-> cost, fresh |-> Unblocked]

\* the block check of check_rate_limit and is_blocked, left out
StillBlocked_never(until, t) == FALSE

\* check_rate_limit / is_blocked: the source has a block that has not expired
StillBlocked(until, t) == until /= NoTime /\ t < until

RLInit ==
    /\ now = 0
    /\ buckets = [s \in Sources |-> NoBucket]
    /\ source_tiers = [s \in Sources |-> NoTier]
    /\ blocked_until = [s \in Sources |-> NoTime]
    /\ violations = [s \in Sources |-> <<>>]
    /\ rl_last = RLResult("none", "s1", TRUE, FALSE)
    /\ seenViolations = [s \in Sources |-> <<>>]
    /\ seenBlockEnd = [s \in Sources |-> NoTime]
    /\ rl_ticks = 0
    /\ rl_calls = 0

(***************************************************************************)
(* Block list of SecurityEventStore (api/utils/security_storage.py)        *)
(***************************************************************************)
MaxStoreCalls == 3       \* block_source / unblock_source calls per run

StoreSources == {"s1", "s2"}
BlockReasons == {"api_abuse", "brute_force"}
Analysts == {"analyst_1"}
NoAnalyst == "none"

\* rows of the table that belong to a source
RowsOf(rows, source_id) == {i \in 1..Len(rows) : rows[i].source_id = source_id}

\* INSERT INTO blocked_sources without its ON CONFLICT clause
store_block_source_insert(rows, source_id, reason, threat_level, auto_blocked) ==
    Append(rows, [source_id |-> source_id, reason |-> reason, threat_level |-> threat_level,
                  auto_blocked |-> auto_blocked, unblocked |-> FALSE,
                  unblocked_by |-> NoAnalyst])

\* SecurityEventStore.block_source: INSERT ... ON CONFLICT(source_id) DO UPDATE
store_block_source(rows, source_id, reason, threat_level, auto_blocked) ==
    IF RowsOf(rows, source_id) = {}
    THEN Append(rows, [source_id |-> source_id, reason |-> reason,
                       threat_level |-> threat_level, auto_blocked |-> auto_blocked,
                       unblocked |-> FALSE, unblocked_by |-> NoAnalyst])
    ELSE [i \in 1..Len(rows) |->
             IF rows[i].source_id = source_id
             THEN [rows[i] EXCEPT !.reason = reason, !.threat_level = threat_level,
                                  !.unblocked = FALSE, !.unblocked_by = NoAnalyst]
             ELSE rows[i]]

\* SecurityEventStore.unblock_source: [rows, result] (UPDATE ... WHERE unblocked = 0)
store_unblock_source(rows, source_id, unblocked_by) ==
    LET hit == {i \in RowsOf(rows, source_id) : ~rows[i].unblocked} IN
    [rows |-> [i \in 1..Len(rows) |->
                  IF i \in hit
                  THEN [rows[i] EXCEPT !.unblocked = TRUE, !.unblocked_by = unblocked_by]
                  ELSE rows[i]],
     result |-> Cardinality(hit) > 0]

\* SecurityEventStore.is_source_blocked
is_source_blocked(rows, source_id) ==
    Cardinality({i \in RowsOf(rows, source_id) : ~rows[i].unblocked}) > 0

NoStoreCall == [op |-> "none", source_id |-> "none", result |-> FALSE]

\* the table as _init_schema creates it
StoreInit ==
    /\ blocked_sources_table = <<>>
    /\ store_last = NoStoreCall
    /\ store_calls = 0

\* a call of SecurityEventStore.block_source
BlockSource(source_id, reason, threat_level, auto_blocked) ==
    /\ store_calls < MaxStoreCalls
    /\ store_calls' = store_calls + 1
    /\ blocked_sources_table' = store_block_source(blocked_sources_table, source_id, reason,
                                                   threat_level, auto_blocked)
    /\ store_last' = [op |-> "block_source", source_id |-> source_id, result |-> TRUE]
    /\ UNCHANGED otherThanStore

\* a call of SecurityEventStore.unblock_source
StoreUnblockSource(source_id, unblocked_by) ==
    /\ store_calls < MaxStoreCalls
    /\ store_calls' = store_calls + 1
    /\ \E r \in {store_unblock_source(blocked_sources_table, source_id, unblocked_by)} :
          /\ blocked_sources_table' = r.rows
          /\ store_last' = [op |-> "unblock_source", source_id |-> source_id,
                            result |-> r.result]
    /\ UNCHANGED otherThanStore

StoreNext ==
    \/ \E src \in StoreSources, reason \in BlockReasons, auto \in BOOLEAN :
          \E level \in {3, 4} : BlockSource(src, reason, level, auto)
    \/ \E src \in StoreSources, by \in Analysts : StoreUnblockSource(src, by)

\* the middleware has served no request
NoDecision == -1
NoStatus == 0
NoRequest ==
    [path |-> "none", method |-> "none", header |-> "none", should_rate_limit |-> FALSE,
     checked |-> FALSE, allowed |-> FALSE, processed |-> FALSE, failing |-> "none",
     raised |-> FALSE, status_code |-> NoStatus, decision_code |-> NoDecision,
     route_decision |-> NoDecision, access_log |-> <<>>]
MWIdle == mw_last = NoRequest /\ mw_requests = 0 /\ rate_log = <<>>

\* the scorer has not been called
NoRisk == [op |-> "none", risk |-> [score |-> 0], t |-> 0]

ScorerIdle ==
    /\ scorer_in = [session |-> [transaction_count |-> 0, total_amount |-> 0,
                                 beneficiaries_added |-> 0, login_time |-> 0],
                    transaction_data |-> [amount |-> 0]]
    /\ scorer_now = 0
    /\ scorer_last = NoRisk
    /\ scorer_ticks = 0

\* no check_rate_limit call is in progress on the worker pool
IdleWorker == [pc |-> "idle", cost |-> 0, allowed |-> FALSE]
PoolWorkers == {"w1", "w2"}
NoFrame == [pc |-> "idle", amount |-> 0, session |-> "none"]
RLPoolIdle == rl_pool = [frames |-> [w \in PoolWorkers |-> IdleWorker], offered |-> 0]
SessPoolIdle == sess_pool = [frames |-> [w \in PoolWorkers |-> NoFrame], recorded |-> <<>>]
PoolIdle == RLPoolIdle /\ SessPoolIdle /\ StoreInit /\ MWIdle /\ ScorerIdle

\* time passes between two calls
RLAdvance ==
    /\ rl_ticks < MaxRLTicks
    /\ \E d \in RLDeltas : now' = now + d
    /\ rl_ticks' = rl_ticks + 1
    /\ rl_last' = RLResult("advance", "s1", TRUE, Unblocked)
    /\ UNCHANGED <<buckets, source_tiers, blocked_until, violations,
                   seenViolations, seenBlockEnd, rl_calls>>
    /\ UNCHANGED otherThanRL

\* RateLimiter.set_source_tier
set_source_tier(s, tier) ==
    /\ source_tiers' = [source_tiers EXCEPT ![s] = tier]
    /\ buckets' = [buckets EXCEPT ![s] = NoBucket]
    /\ rl_last' = RLResult("set_tier", s, TRUE, Unblocked)
    /\ UNCHANGED <<now, blocked_until, violations, seenViolations, seenBlockEnd, rl_ticks, rl_calls>>
    /\ UNCHANGED otherThanRL

\* RateLimiter.check_rate_limit, as far as the limiter's own fields go
RateLimiterCheck(s, cost) ==
    LET stillBlocked == StillBlocked(blocked_until[s], now)
        tier == TierOf(s)
        config == tier_configs[tier]
        bucket == IF buckets[s] = NoBucket THEN NewBucket(config, now) ELSE buckets[s]
        res == consume(bucket, cost, now)
        vs == CleanViolations(Append(violations[s], now), now)
        seen == CleanViolations(Append(seenViolations[s], now), now)
        wasBlocked == seenBlockEnd[s] /= NoTime /\ now < seenBlockEnd[s]
    IN
    /\ rl_calls' = rl_calls + 1
    /\ IF stillBlocked
       THEN /\ rl_last' = CheckResult(s, FALSE, "rate_limit_block", "blocked",
                                        wasBlocked, cost)
            /\ UNCHANGED <<buckets, source_tiers, blocked_until, violations,
                           seenViolations, seenBlockEnd>>
       ELSE /\ source_tiers' = [source_tiers EXCEPT ![s] = tier]
            /\ buckets' = [buckets EXCEPT ![s] = res[1]]
            /\ IF res[2]
               THEN /\ rl_last' = CheckResult(s, TRUE, "none", "allowed", wasBlocked, cost)
                    /\ blocked_until' = [blocked_until EXCEPT ![s] = NoTime]
                    /\ UNCHANGED <<violations, seenViolations, seenBlockEnd>>
               ELSE /\ violations' = [violations EXCEPT ![s] = vs]
                    /\ seenViolations' = [seenViolations EXCEPT ![s] = seen]
                    /\ IF ShouldBlock(vs)
                       THEN /\ blocked_until' = [blocked_until EXCEPT ![s] = now + config.block_duration_seconds]
                            /\ rl_last' = CheckResult(s, FALSE, "rate_limit_block",
                                                        "violation", wasBlocked, cost)
                       ELSE /\ blocked_until' = [blocked_until EXCEPT ![s] = NoTime]
                            /\ rl_last' = CheckResult(s, FALSE, "rate_limit", "violation",
                                                        wasBlocked, cost)
                    /\ seenBlockEnd' = [seenBlockEnd EXCEPT ![s] =
                            IF RecentCount(seen, now) >= 3
                            THEN now + config.block_duration_seconds
                            ELSE seenBlockEnd[s]]
    /\ UNCHANGED <<now, rl_ticks>>

\* RateLimiter.check_rate_limit
check_rate_limit(s, cost) ==
    /\ rl_calls < MaxRLCalls
    /\ RateLimiterCheck(s, cost)
    /\ UNCHANGED otherThanRL

\* RateLimiter.is_blocked (drops an expired block as a side effect)
is_blocked(s) ==
    LET blocked == StillBlocked(blocked_until[s], now) IN
    /\ blocked_until[s] /= NoTime
    /\ blocked_until' = [blocked_until EXCEPT ![s] = IF blocked THEN @ ELSE NoTime]
    /\ rl_last' = RLResult("is_blocked", s, ~blocked, Unblocked)
    /\ UNCHANGED <<now, buckets, source_tiers, violations, seenViolations, seenBlockEnd, rl_ticks, rl_calls>>
    /\ UNCHANGED otherThanRL

\* unblock_source that keeps the source's bucket
unblock_source_keep_bucket(s) ==
    /\ IF blocked_until[s] /= NoTime
       THEN /\ blocked_until' = [blocked_until EXCEPT ![s] = NoTime]
            /\ violations' = [violations EXCEPT ![s] = <<>>]
            /\ rl_last' = RLResult("unblock", s, TRUE, TRUE)
            /\ UNCHANGED buckets
       ELSE /\ rl_last' = RLResult("unblock", s, FALSE, Unblocked)
            /\ UNCHANGED <<blocked_until, violations, buckets>>
    /\ seenViolations' = [seenViolations EXCEPT ![s] = <<>>]
    /\ seenBlockEnd' = [seenBlockEnd EXCEPT ![s] = NoTime]
    /\ UNCHANGED <<now, source_tiers, rl_ticks, rl_calls>>
    /\ UNCHANGED otherThanRL

\* RateLimiter.unblock_source
unblock_source(s) ==
    /\ IF blocked_until[s] /= NoTime
       THEN /\ blocked_until' = [blocked_until EXCEPT ![s] = NoTime]
            /\ violations' = [violations EXCEPT ![s] = <<>>]
            /\ buckets' = [buckets EXCEPT ![s] = NoBucket]
            /\ rl_last' = RLResult("unblock", s, TRUE, TRUE)
       ELSE /\ rl_last' = RLResult("unblock", s, FALSE, Unblocked)
            /\ UNCHANGED <<blocked_until, violations, buckets>>
    /\ seenViolations' = [seenViolations EXCEPT ![s] = <<>>]
    /\ seenBlockEnd' = [seenBlockEnd EXCEPT ![s] = NoTime]
    /\ UNCHANGED <<now, source_tiers, rl_ticks, rl_calls>>
    /\ UNCHANGED otherThanRL

\* RateLimiter.reset_source
reset_source(s) ==
    /\ buckets' = [buckets EXCEPT ![s] = NoBucket]
    /\ blocked_until' = [blocked_until EXCEPT ![s] = NoTime]
    /\ violations' = [violations EXCEPT ![s] = <<>>]
    /\ source_tiers' = [source_tiers EXCEPT ![s] = NoTier]
    /\ rl_last' = RLResult("reset", s, TRUE, Unblocked)
    /\ seenViolations' = [seenViolations EXCEPT ![s] = <<>>]
    /\ seenBlockEnd' = [seenBlockEnd EXCEPT ![s] = NoTime]
    /\ UNCHANGED <<now, rl_ticks, rl_calls>>
    /\ UNCHANGED otherThanRL

\* a client of one source on the free tier issues checks of cost 1 and keeps
\* the times of those that were allowed
MaxRateCalls == 25       \* checks per run of the client
RateSource == "s1"
RateTier == "free"

\* the limiter after set_source_tier(RateSource, RateTier)
RateInit ==
    /\ now = 0
    /\ buckets = [s \in Sources |-> NoBucket]
    /\ source_tiers = [s \in Sources |-> RateTier]
    /\ blocked_until = [s \in Sources |-> NoTime]
    /\ violations = [s \in Sources |-> <<>>]
    /\ rl_last = RLResult("set_tier", RateSource, TRUE, FALSE)
    /\ seenViolations = [s \in Sources |-> <<>>]
    /\ seenBlockEnd = [s \in Sources |-> NoTime]
    /\ rl_ticks = 0
    /\ rl_calls = 0

RateCheck ==
    /\ rl_calls < MaxRateCalls
    /\ RateLimiterCheck(RateSource, 1)
    /\ rate_log' = IF rl_last'.allowed THEN Append(rate_log, now) ELSE rate_log
    /\ UNCHANGED <<ruleVars, policyVars, sessVars, secVars, poolVars, storeVars, mwVars,
                   scorerVars>>

RateNext ==
    \/ RLAdvance
    \/ RateCheck

RLNext ==
    \/ RLAdvance
    \/ \E s \in Sources, tier \in AssignedTiers : set_source_tier(s, tier)
    \/ \E s \in Sources : \E c \in Costs(tier_configs[TierOf(s)]) : check_rate_limit(s, c)
    \/ \E s \in Sources : is_blocked(s)
    \/ \E s \in Sources : unblock_source(s)
    \/ \E s \in Sources : reset_source(s)

(***************************************************************************)
(* check_rate_limit calls of one source running on a worker pool: each     *)
(* statement of TokenBucket.consume is a step of its own, and the steps of *)
(* different workers interleave.                                           *)
(***************************************************************************)
PoolSource == "s1"
PoolCosts == {1, 2}
\* tokens the bucket holds when the concurrent calls arrive
PoolTokensLeft == {0, 1, 2}

\* the limiter after one check that left the bucket of the source with k tokens
PoolInit ==
    \E k \in PoolTokensLeft :
       LET config == tier_configs[DefaultTier]
           bucket == consume(NewBucket(config, 0), config.burst_capacity - k, 0)[1]
       IN /\ now = 0
          /\ buckets = [s \in Sources |-> bucket]
          /\ source_tiers = [s \in Sources |-> DefaultTier]
          /\ blocked_until = [s \in Sources |-> NoTime]
          /\ violations = [s \in Sources |-> <<>>]
          /\ rl_last = [RLResult("check", PoolSource, TRUE, FALSE)
                           EXCEPT !.path = "allowed", !.cost = config.burst_capacity - k]
          /\ seenViolations = [s \in Sources |-> <<>>]
          /\ seenBlockEnd = [s \in Sources |-> NoTime]
          /\ rl_ticks = 0
          /\ rl_calls = 1
          /\ rl_pool = [frames |-> [w \in PoolWorkers |-> IdleWorker], offered |-> bucket.tokens]
          /\ SessPoolIdle
          /\ StoreInit
          /\ MWIdle
          /\ ScorerIdle

\* the frame of worker w moves on
PoolFrame(w, pc, cost, allowed) ==
    rl_pool' = [rl_pool EXCEPT !.frames[w] = [pc |-> pc, cost |-> cost, allowed |-> allowed]]

\* check_rate_limit up to `bucket = self._buckets[source_id]`
PoolEnter(w, cost) ==
    LET s == PoolSource
        config == tier_configs[TierOf(s)]
    IN
    /\ rl_pool.frames[w].pc = "idle"
    /\ IF StillBlocked(blocked_until[s], now)
       THEN /\ PoolFrame(w, "done", cost, FALSE)
            /\ UNCHANGED <<buckets, blocked_until>>
       ELSE /\ PoolFrame(w, "refill", cost, FALSE)
            /\ blocked_until' = [blocked_until EXCEPT ![s] = NoTime]
            /\ buckets' = [buckets EXCEPT ![s] =
                              IF @ = NoBucket THEN NewBucket(config, now) ELSE @]
    /\ UNCHANGED <<now, source_tiers, violations, rl_last, seenViolations, seenBlockEnd,
                   rl_ticks, rl_calls>>
    /\ UNCHANGED otherThanPool

\* TokenBucket.consume, "Refill tokens based on time elapsed"
PoolRefill(w) ==
    /\ rl_pool.frames[w].pc = "refill"
    /\ buckets' = [buckets EXCEPT ![PoolSource] = Refill(@, now)]
    /\ PoolFrame(w, "test", rl_pool.frames[w].cost, FALSE)
    /\ UNCHANGED <<now, source_tiers, blocked_until, violations, rl_last, seenViolations,
                   seenBlockEnd, rl_ticks, rl_calls>>
    /\ UNCHANGED otherThanPool

\* TokenBucket.consume, `if self.tokens >= tokens:`
PoolTest(w) ==
    /\ rl_pool.frames[w].pc = "test"
    /\ PoolFrame(w, IF buckets[PoolSource].tokens >= rl_pool.frames[w].cost * TokenUnit
                    THEN "take" ELSE "violation",
                 rl_pool.frames[w].cost, FALSE)
    /\ UNCHANGED rlVars
    /\ UNCHANGED otherThanPool

\* TokenBucket.consume, `self.tokens -= tokens` and the return of True
PoolTake(w) ==
    /\ rl_pool.frames[w].pc = "take"
    /\ buckets' = [buckets EXCEPT ![PoolSource].tokens = @ - rl_pool.frames[w].cost * TokenUnit]
    /\ PoolFrame(w, "done", rl_pool.frames[w].cost, TRUE)
    /\ UNCHANGED <<now, source_tiers, blocked_until, violations, rl_last, seenViolations,
                   seenBlockEnd, rl_ticks, rl_calls>>
    /\ UNCHANGED otherThanPool

\* check_rate_limit, "Rate limited - record violation" to its return
PoolViolation(w) ==
    LET s == PoolSource
        config == tier_configs[TierOf(s)]
        vs == CleanViolations(Append(violations[s], now), now)
    IN
    /\ rl_pool.frames[w].pc = "violation"
    /\ violations' = [violations EXCEPT ![s] = vs]
    /\ blocked_until' = IF ShouldBlock(vs)
                        THEN [blocked_until EXCEPT ![s] = now + config.block_duration_seconds]
                        ELSE blocked_until
    /\ PoolFrame(w, "done", rl_pool.frames[w].cost, FALSE)
    /\ UNCHANGED <<now, buckets, source_tiers, rl_last, seenViolations, seenBlockEnd,
                   rl_ticks, rl_calls>>
    /\ UNCHANGED otherThanPool

PoolNext ==
    \/ \E w \in PoolWorkers, cost \in PoolCosts : PoolEnter(w, cost)
    \/ \E w \in PoolWorkers : PoolRefill(w)
    \/ \E w \in PoolWorkers : PoolTest(w)
    \/ \E w \in PoolWorkers : PoolTake(w)
    \/ \E w \in PoolWorkers : PoolViolation(w)

(***************************************************************************)
(* RulesEngine (api/models/rules.py)                                       *)
(***************************************************************************)
MaxEvals == 1            \* evaluate calls per run, after the recorded history
MaxDenied == 2           \* entries on the deny lists at any one time

NoId == "none"                         \* an optional field left out (None)
EmptyId == ""                          \* a field present but empty
RuleUsers == {"u1"}
RuleDevices == {"d1", "d2"}
RuleIps == {NoId, EmptyId, "ip1"}
RuleMerchants == {NoId, "m1"}
RuleAmounts == {10, 2000, 20000}
\* transaction timestamps in minutes: 00:00 and 03:20 on day 0
RuleTimes == {0, 200}
\* transactions of u1 on d1 at 00:00 already recorded when the run starts, as
\* <<how many, amount>>: none, one small one, or HistoryLen high-value ones
HistoryLen == 5
WarmHistories == {<<0, 10>>, <<1, 10>>, <<HistoryLen, 2000>>}

\* RulesEngine._load_config, default configuration
user_hourly == 10
user_daily == 50
device_hourly == 5
high_value_amount == 1000
high_value_daily == 3
night_start_hour == 3
night_end_hour == 5
first_txn_step_up == 500
review_large_amount == 10000
review_amount_multiplier == 100
MaxAmountHistory == 30
MinutesPerHour == 60

\* RuleAction
ALLOW == "allow"
STEP_UP == "step_up"
REVIEW == "review"
BLOCK == "block"

\* velocity_tracker keys: f"user:{user_id}", f"device:{device_id}", f"high_value:{user_id}"
VelocityKeys ==
    ({"user", "high_value"} \X RuleUsers) \cup ({"device"} \X RuleDevices)

\* Python truthiness of an optional string: None and "" are false
Truthy(id) == id /= NoId /\ id /= EmptyId

RECURSIVE SumSeq(_)
SumSeq(q) == IF q = <<>> THEN 0 ELSE Head(q) + SumSeq(Tail(q))

\* _check_denylists without its merchant check
_check_denylists_no_merchant(du, dd, di, dm, user_id, device_id, ip_address, merchant_id) ==
    (IF Truthy(user_id) /\ user_id \in du THEN <<"denied_user">> ELSE <<>>)
    \o (IF Truthy(device_id) /\ device_id \in dd THEN <<"denied_device">> ELSE <<>>)
    \o (IF Truthy(ip_address) /\ ip_address \in di THEN <<"denied_ip">> ELSE <<>>)

\* RulesEngine._check_denylists
_check_denylists(du, dd, di, dm, user_id, device_id, ip_address, merchant_id) ==
    (IF Truthy(user_id) /\ user_id \in du THEN <<"denied_user">> ELSE <<>>)
    \o (IF Truthy(device_id) /\ device_id \in dd THEN <<"denied_device">> ELSE <<>>)
    \o (IF Truthy(ip_address) /\ ip_address \in di THEN <<"denied_ip">> ELSE <<>>)
    \o (IF Truthy(merchant_id) /\ merchant_id \in dm THEN <<"denied_merchant">> ELSE <<>>)

\* _count_recent_transactions keeping the entries at the cutoff itself
RecentTxns_inclusive(vt, key, current_time, hours) ==
    LET cutoff_time == current_time - hours * MinutesPerHour
        Keep(t) == t >= cutoff_time
    IN SelectSeq(vt[key], Keep)

\* RulesEngine._count_recent_transactions: the pruned list it stores for the key
RecentTxns(vt, key, current_time, hours) ==
    LET cutoff_time == current_time - hours * MinutesPerHour
        Keep(t) == t > cutoff_time
    IN SelectSeq(vt[key], Keep)

\* RulesEngine._count_recent_transactions: <<tracker after the call, count>>
_count_recent_transactions(vt, key, current_time, hours) ==
    LET recent_txns == RecentTxns(vt, key, current_time, hours) IN
    <<[vt EXCEPT ![key] = recent_txns], Len(recent_txns)>>

\* RulesEngine._check_velocity, the action after the four checks: each check
\* that fires assigns its own action, the last assignment wins
VelocityAction(u1h, u1d, d1h, hv) ==
    IF hv THEN REVIEW
    ELSE IF u1h \/ u1d \/ d1h THEN BLOCK
    ELSE ALLOW

\* one call of _count_recent_transactions as seen by its caller: the key, the
\* horizon, the count returned and the window stored for the key
WindowRead(c, key, hours) ==
    [key |-> key, hours |-> hours, count |-> c[2], window |-> c[1][key]]

\* RulesEngine._check_velocity: [vt, fired, action, reasons, reads]
_check_velocity(vt, user_id, device_id, amount, txn_time) ==
    LET user_key == <<"user", user_id>>
        device_key == <<"device", device_id>>
        high_value_key == <<"high_value", user_id>>
        c1 == _count_recent_transactions(vt, user_key, txn_time, 1)
        c2 == _count_recent_transactions(c1[1], user_key, txn_time, 24)
        c3 == _count_recent_transactions(c2[1], device_key, txn_time, 1)
        c4 == IF amount > high_value_amount
              THEN _count_recent_transactions(c3[1], high_value_key, txn_time, 24)
              ELSE <<c3[1], 0>>
        u1h == c1[2] >= user_hourly
        u1d == c2[2] >= user_daily
        d1h == c3[2] >= device_hourly
        hv == amount > high_value_amount /\ c4[2] >= high_value_daily
        reasons == (IF u1h THEN <<"velocity_user_1h">> ELSE <<>>)
                   \o (IF u1d THEN <<"velocity_user_1d">> ELSE <<>>)
                   \o (IF d1h THEN <<"velocity_device_1h">> ELSE <<>>)
                   \o (IF hv THEN <<"velocity_high_value">> ELSE <<>>)
    IN [vt |-> c4[1], fired |-> reasons /= <<>>,
        action |-> VelocityAction(u1h, u1d, d1h, hv), reasons |-> reasons,
        reads |-> <<WindowRead(c1, user_key, 1), WindowRead(c2, user_key, 24),
                    WindowRead(c3, device_key, 1)>>
                  \o (IF amount > high_value_amount
                      THEN <<WindowRead(c4, high_value_key, 24)>> ELSE <<>>)]

\* RulesEngine._check_time_anomaly: the rule id, or <<>> for None
_check_time_anomaly(txn_time) ==
    LET hour == (txn_time \div MinutesPerHour) % 24 IN
    IF night_start_hour <= hour /\ hour < night_end_hour
    THEN <<"time_night_window">> ELSE <<>>

\* RulesEngine._check_amount_rules: [fired, action, reasons]
\* (amount > user_avg * multiplier is compared without the division)
_check_amount_rules(cnt, amts, user_id, amount) ==
    LET first == cnt[user_id] = 0 /\ amount > first_txn_step_up
        large == amount > review_large_amount
        unusual == /\ Len(amts[user_id]) > 0
                   /\ amount * Len(amts[user_id]) > SumSeq(amts[user_id]) * review_amount_multiplier
        reasons == (IF first THEN <<"amount_first_txn_high">> ELSE <<>>)
                   \o (IF large THEN <<"amount_large">> ELSE <<>>)
                   \o (IF unusual THEN <<"amount_unusual">> ELSE <<>>)
    IN [fired |-> reasons /= <<>>,
        action |-> IF large \/ unusual THEN REVIEW ELSE IF first THEN STEP_UP ELSE ALLOW,
        reasons |-> reasons]

\* RulesEngine._track_transaction: [vt, cnt, amts]
_track_transaction(vt, cnt, amts, user_id, device_id, amount, txn_time) ==
    LET vt1 == [vt EXCEPT ![<<"user", user_id>>] = Append(@, txn_time),
                          ![<<"device", device_id>>] = Append(@, txn_time)]
        vt2 == IF amount > high_value_amount
               THEN [vt1 EXCEPT ![<<"high_value", user_id>>] = Append(@, txn_time)]
               ELSE vt1
        a1 == Append(amts[user_id], amount)
        a2 == IF Len(a1) > MaxAmountHistory
              THEN SubSeq(a1, Len(a1) - MaxAmountHistory + 1, Len(a1)) ELSE a1
    IN [vt |-> vt2,
        cnt |-> [cnt EXCEPT ![user_id] = @ + 1],
        amts |-> [amts EXCEPT ![user_id] = a2]]

\* RulesEngine.evaluate, stages 3 and 4 on top of the velocity verdict:
\* the action after the time and amount rules
UpgradeAction(velAction, velFired, timeFired, amt) ==
    LET a2 == IF velFired /\ velAction = REVIEW THEN REVIEW ELSE ALLOW
        a3 == IF timeFired /\ a2 = ALLOW THEN REVIEW ELSE a2
    IN IF amt.fired /\ amt.action = STEP_UP /\ a3 = ALLOW THEN STEP_UP
       ELSE IF amt.fired /\ amt.action = REVIEW /\ a3 \in {ALLOW, STEP_UP} THEN REVIEW
       ELSE a3

\* evaluate with _track_transaction moved in front of the stages
evaluate_track_first(st, du, dd, di, dm, txn) ==
    LET deny_result == _check_denylists(du, dd, di, dm, txn.user_id, txn.device_id,
                                        txn.ip_address, txn.merchant_id)
        tracked == _track_transaction(st.vt, st.cnt, st.amts, txn.user_id,
                                      txn.device_id, txn.amount, txn.timestamp)
        vel == _check_velocity(tracked.vt, txn.user_id, txn.device_id, txn.amount,
                               txn.timestamp)
        tim == _check_time_anomaly(txn.timestamp)
        amt == _check_amount_rules(tracked.cnt, tracked.amts, txn.user_id, txn.amount)
    IN
    IF deny_result /= <<>>
    THEN [st |-> st, action |-> BLOCK, reasons |-> deny_result, reads |-> <<>>]
    ELSE IF vel.fired /\ vel.action = BLOCK
    THEN [st |-> [tracked EXCEPT !.vt = vel.vt], action |-> BLOCK, reasons |-> vel.reasons,
          reads |-> vel.reads]
    ELSE [st |-> [tracked EXCEPT !.vt = vel.vt],
          action |-> UpgradeAction(vel.action, vel.fired, tim /= <<>>, amt),
          reasons |-> vel.reasons \o tim \o amt.reasons,
          reads |-> vel.reads]

\* evaluate that records the transaction also when a velocity cap blocks it
evaluate_track_blocked(st, du, dd, di, dm, txn) ==
    LET deny_result == _check_denylists(du, dd, di, dm, txn.user_id, txn.device_id,
                                        txn.ip_address, txn.merchant_id)
        vel == _check_velocity(st.vt, txn.user_id, txn.device_id, txn.amount, txn.timestamp)
        tim == _check_time_anomaly(txn.timestamp)
        amt == _check_amount_rules(st.cnt, st.amts, txn.user_id, txn.amount)
        tracked == _track_transaction(vel.vt, st.cnt, st.amts, txn.user_id,
                                      txn.device_id, txn.amount, txn.timestamp)
    IN
    IF deny_result /= <<>>
    THEN [st |-> st, action |-> BLOCK, reasons |-> deny_result, reads |-> <<>>]
    ELSE IF vel.fired /\ vel.action = BLOCK
    THEN [st |-> tracked, action |-> BLOCK, reasons |-> vel.reasons, reads |-> vel.reads]
    ELSE [st |-> tracked,
          action |-> UpgradeAction(vel.action, vel.fired, tim /= <<>>, amt),
          reasons |-> vel.reasons \o tim \o amt.reasons,
          reads |-> vel.reads]

\* RulesEngine.evaluate as a function of the engine state st = [vt, cnt, amts]
\* and the deny lists: [st, action, reasons, fired] where fired is the set of
\* levels of the rules that fired
evaluate(st, du, dd, di, dm, txn) ==
    LET deny_result == _check_denylists(du, dd, di, dm, txn.user_id, txn.device_id,
                                        txn.ip_address, txn.merchant_id)
        vel == _check_velocity(st.vt, txn.user_id, txn.device_id, txn.amount, txn.timestamp)
        tim == _check_time_anomaly(txn.timestamp)
        amt == _check_amount_rules(st.cnt, st.amts, txn.user_id, txn.amount)
        tracked == _track_transaction(vel.vt, st.cnt, st.amts, txn.user_id,
                                      txn.device_id, txn.amount, txn.timestamp)
    IN
    IF deny_result /= <<>>
    THEN [st |-> st, action |-> BLOCK, reasons |-> deny_result, reads |-> <<>>]
    ELSE IF vel.fired /\ vel.action = BLOCK
    THEN [st |-> [st EXCEPT !.vt = vel.vt], action |-> BLOCK, reasons |-> vel.reasons,
          reads |-> vel.reads]
    ELSE [st |-> tracked,
          action |-> UpgradeAction(vel.action, vel.fired, tim /= <<>>, amt),
          reasons |-> vel.reasons \o tim \o amt.reasons,
          reads |-> vel.reads]

\* RulesEngine.__init__: nothing recorded
EmptyRules ==
    [vt |-> [k \in VelocityKeys |-> <<>>],
     cnt |-> [u \in RuleUsers |-> 0],
     amts |-> [u \in RuleUsers |-> <<>>]]

\* the engine after n evaluations of a transaction of u1 on d1 at 00:00
RECURSIVE RulesAfter(_, _)
RulesAfter(n, amount) ==
    IF n = 0 THEN EmptyRules
    ELSE evaluate(RulesAfter(n - 1, amount), {}, {}, {}, {},
                  [user_id |-> "u1", device_id |-> "d1", amount |-> amount, timestamp |-> 0,
                   ip_address |-> NoId, merchant_id |-> NoId]).st

\* one evaluate call in the history: whose transaction, its device, amount
\* and timestamp, whether _track_transaction recorded it, and the velocity
\* windows it read
LogEntry(st, r, txn) ==
    [user_id |-> txn.user_id, device_id |-> txn.device_id, amount |-> txn.amount,
     timestamp |-> txn.timestamp,
     tracked |-> r.st.cnt[txn.user_id] > st.cnt[txn.user_id], reads |-> r.reads]

\* the engine p = [st, log] after evaluating the transactions of a list, one
\* after the other (the first half of the list, then the rest)
RECURSIVE EngineFrom(_, _)
EngineFrom(p, txns) ==
    IF txns = <<>> THEN p
    ELSE IF Len(txns) = 1
    THEN Then(evaluate(p.st, {}, {}, {}, {}, txns[1]),
              LAMBDA r : [st |-> r.st, log |-> Append(p.log, LogEntry(p.st, r, txns[1]))])
    ELSE Then(EngineFrom(p, SubSeq(txns, 1, Len(txns) \div 2)),
              LAMBDA p1 : EngineFrom(p1, SubSeq(txns, Len(txns) \div 2 + 1, Len(txns))))

\* a new engine after evaluating the transactions of a list: [st, log]
EngineAfter(txns) == EngineFrom([st |-> EmptyRules, log |-> <<>>], txns)

\* the transactions of a history h = <<how many, amount>>
HistoryTxns(h) ==
    [i \in 1..h[1] |-> [user_id |-> "u1", device_id |-> "d1", amount |-> h[2],
                        timestamp |-> 0, ip_address |-> NoId, merchant_id |-> NoId]]

RuleState == [vt |-> velocity_tracker, cnt |-> user_transaction_count, amts |-> user_amounts]

NoTxn == [user_id |-> "u1", device_id |-> "d1", amount |-> 0, timestamp |-> 0,
          ip_address |-> NoId, merchant_id |-> NoId]

\* a new engine that has evaluated the history h = <<how many, amount>>
RulesStart(h) ==
    /\ denied_users = {}
    /\ denied_devices = {}
    /\ denied_ips = {}
    /\ denied_merchants = {}
    /\ velocity_tracker = RulesAfter(h[1], h[2]).vt
    /\ user_transaction_count = RulesAfter(h[1], h[2]).cnt
    /\ user_amounts = RulesAfter(h[1], h[2]).amts
    /\ rule_last = [op |-> "none", txn |-> NoTxn, action |-> ALLOW, reasons |-> <<>>]
    /\ rule_log = EngineAfter(HistoryTxns(h)).log
    /\ rule_evals = 0

RulesInit == \E h \in WarmHistories : RulesStart(h)
\* the engine at rest while another component is examined
RulesIdle == RulesStart(<<0, 10>>)

\* longer recorded histories of u1, for the velocity caps:
\* user_daily small transactions on d1, three an hour, the last one
\* SpreadStep minutes before 00:00 of day 0
SpreadStep == MinutesPerHour \div 3
SpreadTxns ==
    [i \in 1..user_daily |->
        [user_id |-> "u1", device_id |-> "d1", amount |-> 10,
         timestamp |-> (i - user_daily - 1) * SpreadStep,
         ip_address |-> NoId, merchant_id |-> NoId]]

\* user_hourly transactions of one amount at 00:00, device_hourly of them on d1
\* and the rest on d2
BurstTxns(amount) ==
    [i \in 1..user_hourly |->
        [user_id |-> "u1", device_id |-> IF i <= device_hourly THEN "d1" ELSE "d2",
         amount |-> amount, timestamp |-> 0, ip_address |-> NoId, merchant_id |-> NoId]]

VelocityRuns == {SpreadTxns, BurstTxns(10), BurstTxns(2000)}

\* a new engine that has evaluated the transactions of a list
RulesStartRun(txns) ==
    \E p \in {EngineAfter(txns)} :
        /\ denied_users = {}
        /\ denied_devices = {}
        /\ denied_ips = {}
        /\ denied_merchants = {}
        /\ velocity_tracker = p.st.vt
        /\ user_transaction_count = p.st.cnt
        /\ user_amounts = p.st.amts
        /\ rule_last = [op |-> "none", txn |-> NoTxn, action |-> ALLOW, reasons |-> <<>>]
        /\ rule_log = p.log
        /\ rule_evals = 0

VelocityInit == \E txns \in VelocityRuns : RulesStartRun(txns)

\* a call of RulesEngine.evaluate(transaction): the engine's fields after it
EvaluateCall(txn) ==
    /\ \E r \in {evaluate(RuleState, denied_users, denied_devices, denied_ips,
                          denied_merchants, txn)} :
          /\ rule_evals' = rule_evals + 1
          /\ velocity_tracker' = r.st.vt
          /\ user_transaction_count' = r.st.cnt
          /\ user_amounts' = r.st.amts
          /\ rule_last' = [op |-> "evaluate", txn |-> txn, action |-> r.action,
                           reasons |-> r.reasons]
          /\ rule_log' = Append(rule_log, LogEntry(RuleState, r, txn))
    /\ UNCHANGED <<denied_users, denied_devices, denied_ips, denied_merchants>>
    /\ UNCHANGED otherThanRules

\* a call of RulesEngine.evaluate(transaction)
Evaluate(txn) ==
    /\ rule_evals < MaxEvals
    /\ EvaluateCall(txn)

DeniedCount ==
    Cardinality(denied_users) + Cardinality(denied_devices)
    + Cardinality(denied_ips) + Cardinality(denied_merchants)

\* RulesEngine.add_to_deny_list
add_to_deny_list(entity_type, entity_id) ==
    /\ DeniedCount < MaxDenied
    /\ denied_users' = IF entity_type = "user" THEN denied_users \cup {entity_id} ELSE denied_users
    /\ denied_devices' = IF entity_type = "device" THEN denied_devices \cup {entity_id} ELSE denied_devices
    /\ denied_ips' = IF entity_type = "ip" THEN denied_ips \cup {entity_id} ELSE denied_ips
    /\ denied_merchants' = IF entity_type = "merchant" THEN denied_merchants \cup {entity_id} ELSE denied_merchants
    /\ rule_last' = [op |-> "deny", txn |-> NoTxn, action |-> ALLOW, reasons |-> <<>>]
    /\ UNCHANGED <<velocity_tracker, user_transaction_count, user_amounts, rule_log,
                   rule_evals>>
    /\ UNCHANGED otherThanRules

\* RulesEngine.remove_from_deny_list
remove_from_deny_list(entity_type, entity_id) ==
    /\ denied_users' = IF entity_type = "user" THEN denied_users \ {entity_id} ELSE denied_users
    /\ denied_devices' = IF entity_type = "device" THEN denied_devices \ {entity_id} ELSE denied_devices
    /\ denied_ips' = IF entity_type = "ip" THEN denied_ips \ {entity_id} ELSE denied_ips
    /\ denied_merchants' = IF entity_type = "merchant" THEN denied_merchants \ {entity_id} ELSE denied_merchants
    /\ rule_last' = [op |-> "allow_again", txn |-> NoTxn, action |-> ALLOW, reasons |-> <<>>]
    /\ UNCHANGED <<velocity_tracker, user_transaction_count, user_amounts, rule_log,
                   rule_evals>>
    /\ UNCHANGED otherThanRules

Transactions ==
    [user_id : RuleUsers, device_id : RuleDevices, amount : RuleAmounts,
     timestamp : RuleTimes, ip_address : RuleIps, merchant_id : RuleMerchants]

\* the identifiers an operator can put on a deny list
DenyEntries ==
    ({"user"} \X RuleUsers) \cup ({"device"} \X {"d1"})
    \cup ({"ip"} \X (RuleIps \ {NoId})) \cup ({"merchant"} \X (RuleMerchants \ {NoId}))

\* attempts of u1 after device_hourly recorded transactions on d1 at 00:00:
\* at once, half an hour later, and when the hour has passed
MaxBlockEvals == 3
BlockTimes == {0, MinutesPerHour \div 2, MinutesPerHour}
BlockTxns ==
    [user_id : {"u1"}, device_id : RuleDevices, amount : {10},
     timestamp : BlockTimes, ip_address : {NoId}, merchant_id : {NoId}]
BlockHistories == {<<device_hourly, 10>>, <<device_hourly, 2000>>}
BlockInit == \E h \in BlockHistories : RulesStart(h)

EvaluateAttempt(txn) ==
    /\ rule_evals < MaxBlockEvals
    /\ EvaluateCall(txn)

BlockNext ==
    \/ \E txn \in BlockTxns : EvaluateAttempt(txn)
    \/ add_to_deny_list("user", "u1")
    \/ remove_from_deny_list("user", "u1")

RulesNext ==
    \/ \E txn \in Transactions : Evaluate(txn)
    \/ \E e \in DenyEntries : add_to_deny_list(e[1], e[2])
    \/ \E e \in DenyEntries : remove_from_deny_list(e[1], e[2])

(***************************************************************************)
(* PolicyEngine (api/models/policy.py)                                     *)
(* Scores and thresholds are in hundredths: 35 is 0.35.                    *)
(***************************************************************************)
ScoreUnit == 100

\* model scores handed to decide (ml_result["score"])
MlScores == {0, 20, 35, 45, 55, 65, 75, 85, 90, 100}
\* values handed to update_threshold: below 0, inside [0, 1], above 1
ThresholdValues == {-5, 0, 35, 55, 75, 90, 100, 105}
ThresholdNames == {"allow", "monitor", "stepup", "review"}
\* names handed to update_threshold, one of them not a threshold
UpdateNames == ThresholdNames \cup {"block"}

\* PolicyEngine.__init__: the default thresholds
DefaultThresholds ==
    [n \in ThresholdNames |->
        CASE n = "allow" -> 35 [] n = "monitor" -> 55 [] n = "stepup" -> 75 [] n = "review" -> 90]

\* the threshold chain of decide with its branches tried from the last one
DecisionCodeOf_reversed(th, ml_score) ==
    IF ml_score < th["review"] THEN 3
    ELSE IF ml_score < th["stepup"] THEN 2
    ELSE IF ml_score < th["monitor"] THEN 1
    ELSE IF ml_score < th["allow"] THEN 0
    ELSE 4

\* PolicyEngine.decide: the threshold chain
DecisionCodeOf(th, ml_score) ==
    IF ml_score < th["allow"] THEN 0
    ELSE IF ml_score < th["monitor"] THEN 1
    ELSE IF ml_score < th["stepup"] THEN 2
    ELSE IF ml_score < th["review"] THEN 3
    ELSE 4

\* PolicyEngine.decide: [decision_code, score]
decide(th, blocked, ml_score) ==
    IF blocked
    THEN [decision_code |-> 4, score |-> ScoreUnit]
    ELSE [decision_code |-> DecisionCodeOf(th, ml_score), score |-> ml_score]

PolicyInit ==
    /\ thresholds = DefaultThresholds
    /\ policy_last = [op |-> "none", blocked |-> FALSE, ml_score |-> 0,
                      decision_code |-> 0, score |-> 0]

\* a call of PolicyEngine.decide(rules_result, ml_result)
Decide(blocked, ml_score) ==
    LET d == decide(thresholds, blocked, ml_score) IN
    /\ policy_last' = [op |-> "decide", blocked |-> blocked, ml_score |-> ml_score,
                       decision_code |-> d.decision_code, score |-> d.score]
    /\ UNCHANGED thresholds
    /\ UNCHANGED otherThanPolicy

\* PolicyEngine.update_threshold
update_threshold(threshold_name, value) ==
    /\ thresholds' = IF threshold_name \in DOMAIN thresholds /\ 0 <= value /\ value <= ScoreUnit
                     THEN [thresholds EXCEPT ![threshold_name] = value]
                     ELSE thresholds
    /\ policy_last' = [op |-> "update", blocked |-> FALSE, ml_score |-> 0,
                       decision_code |-> 0, score |-> 0]
    /\ UNCHANGED otherThanPolicy

PolicyNext ==
    \/ \E blocked \in BOOLEAN, ml_score \in MlScores : Decide(blocked, ml_score)
    \/ \E n \in UpdateNames, v \in ThresholdValues : update_threshold(n, v)

(***************************************************************************)
(* Session monitoring: SessionMonitor (api/models/session_monitor.py), the *)
(* session table of SecurityEventStore (api/utils/security_storage.py),    *)
(* the decision route (api/routes/decision.py) and the sessions route      *)
(* (api/routes/sessions.py). The two routes hold one SessionMonitor each,  *)
(* with its own cache, over the same table. Store calls succeed.           *)
(***************************************************************************)
MaxSessTicks == 2        \* clock advances per run of the session monitors
MaxSessRequests == 3     \* decision requests per run
MaxTerminations == 2     \* session_terminated rows a session has before the terminate endpoint stops

SessionIds == {"sess1"}
\* seconds between two requests: within and beyond the cache lifetime
SessDeltas == {1, 60}
\* session risk scores (BehavioralScorer.calculate_risk): below and at the floor
SessScores == {79, 80}
\* model scores of the ML stage, in hundredths: an Allow and a Block of the policy
SessMlScores == {20, 95}
\* transactions of the decision requests: a small one of u1 on d1 at 00:00
SessTxns ==
    [user_id : {"u1"}, device_id : {"d1"}, amount : {10},
     timestamp : {0}, ip_address : {NoId}, merchant_id : {NoId}]
\* transactions the rules engine of the decision route has recorded before:
\* none, or one less than the hourly device cap allows
SessHistories == {<<0, 10>>, <<HistoryLen - 1, 10>>}

cache_ttl == 60
termination_threshold == 80
DecisionCode_BLOCK == 4

NoReason == "none"
ManualReason == "manual (by: system)"
CriticalReason == "critical risk score (by: system)"

NoSession ==
    [exists |-> FALSE, transaction_count |-> 0, total_amount |-> 0, risk_score |-> 0,
     is_terminated |-> FALSE, termination_reason |-> NoReason]
NoEntry == [session |-> NoSession, at |-> NoTime]

\* SessionBehavior(...) as create_session builds it
NewSession ==
    [exists |-> TRUE, transaction_count |-> 0, total_amount |-> 0, risk_score |-> 0,
     is_terminated |-> FALSE, termination_reason |-> NoReason]

\* SessionMonitor.get_session: [cache, session] (session = NoSession for None)
get_session(cache, db, sid, t) ==
    IF cache[sid] /= NoEntry /\ t - cache[sid].at < cache_ttl
    THEN [cache |-> cache, session |-> cache[sid].session]
    ELSE IF db[sid].exists
    THEN [cache |-> [cache EXCEPT ![sid] = [session |-> db[sid], at |-> t]],
          session |-> db[sid]]
    ELSE [cache |-> cache, session |-> NoSession]

\* SecurityEventStore.store_session: the upsert takes every modelled column
\* from the data handed in, is_terminated and termination_reason included
store_session(db, sid, session) == [db EXCEPT ![sid] = session]

\* SessionMonitor.update_session: [cache, db]
update_session(cache, db, sid, session, t) ==
    [cache |-> [cache EXCEPT ![sid] = [session |-> session, at |-> t]],
     db |-> store_session(db, sid, session)]

\* SessionMonitor.create_session: [cache, db, session]
create_session(cache, db, sid, t) ==
    [cache |-> [cache EXCEPT ![sid] = [session |-> NewSession, at |-> t]],
     db |-> store_session(db, sid, NewSession),
     session |-> NewSession]

\* SecurityEventStore.terminate_session: the UPDATE of the row, if there is one
store_terminate_session(db, sid, reason) ==
    IF db[sid].exists
    THEN [db EXCEPT ![sid].is_terminated = TRUE, ![sid].termination_reason = reason]
    ELSE db

\* SessionEvent(event_type=SESSION_TERMINATED, ...) as terminate_session stores it
TerminatedEvent(reason, t) ==
    [event_type |-> "session_terminated", event_time |-> t, reason |-> reason]

\* SessionMonitor.terminate_session: [cache, db, success]; on success the caller's
\* events table receives one more session_terminated row
terminate_session(cache, db, sid, reason) ==
    IF db[sid].exists
    THEN [cache |-> [cache EXCEPT ![sid] = NoEntry],
          db |-> store_terminate_session(db, sid, reason),
          success |-> TRUE]
    ELSE [cache |-> cache, db |-> db, success |-> FALSE]

\* SecurityEventStore.store_session_event for the row of a termination
store_session_event(events, sid, success, reason, t) ==
    IF success
    THEN [events EXCEPT ![sid] = Append(@, TerminatedEvent(reason, t))]
    ELSE events

\* SessionBehavior.update_metrics
update_metrics(session, transaction_amount) ==
    [session EXCEPT !.transaction_count = @ + 1, !.total_amount = @ + transaction_amount]

\* SessionMonitor.record_transaction: [cache, db]
record_transaction(cache, db, sid, transaction_amount, t) ==
    Then(get_session(cache, db, sid, t),
         LAMBDA g : IF ~g.session.exists
                    THEN [cache |-> g.cache, db |-> db]
                    ELSE Then(update_metrics(g.session, transaction_amount),
                              LAMBDA session : update_session(g.cache, db, sid, session, t)))

\* check_session_behavior: the termination test with > in place of >=
TerminationDue_strict(score, session) ==
    score > termination_threshold /\ ~session.is_terminated

\* check_session_behavior: the termination test
TerminationDue(score, session) ==
    score >= termination_threshold /\ ~session.is_terminated

\* check_session_behavior, "Get or create session": m = [cache, db, session]
GetOrCreate(m, sid, t) ==
    Then(get_session(m.cache, m.db, sid, t),
         LAMBDA g : IF g.session.exists
                    THEN [cache |-> g.cache, db |-> m.db, session |-> g.session]
                    ELSE create_session(g.cache, m.db, sid, t))

\* check_session_behavior, "Record transaction event" and "Refresh session"
RecordAndRefresh(m, sid, amount, t) ==
    Then(record_transaction(m.cache, m.db, sid, amount, t),
         LAMBDA r : Then(get_session(r.cache, r.db, sid, t),
                         LAMBDA g : [cache |-> g.cache, db |-> r.db, session |-> g.session]))

\* check_session_behavior, "Update session with risk score"
ScoreAndUpdate(m, sid, score, t) ==
    Then([m.session EXCEPT !.risk_score = score],
         LAMBDA scored :
            Then(update_session(m.cache, m.db, sid, scored, t),
                 LAMBDA u : [cache |-> u.cache, db |-> u.db, session |-> scored]))

\* check_session_behavior, "Check for termination threshold"
TerminateIfDue(m, sid, score, t) ==
    IF TerminationDue(score, m.session)
    THEN Then(terminate_session(m.cache, m.db, sid, CriticalReason),
              LAMBDA term :
                 Then(get_session(term.cache, term.db, sid, t),
                      LAMBDA g : [cache |-> g.cache, db |-> term.db, session |-> g.session,
                                  terminated |-> term.success]))
    ELSE [cache |-> m.cache, db |-> m.db, session |-> m.session, terminated |-> FALSE]

\* check_session_behavior, "Build response"
BuildInfo(m, score) ==
    [cache |-> m.cache, db |-> m.db, terminated |-> m.terminated,
     info |-> [risk_score |-> score,
               is_terminated |-> m.session.is_terminated,
               termination_reason |-> m.session.termination_reason,
               transaction_count |-> m.session.transaction_count]]

\* check_session_behavior of the decision route: [cache, db, terminated, info]
check_session_behavior(cache, db, sid, amount, score, t) ==
    Then(Then(Then(Then(Then([cache |-> cache, db |-> db, session |-> NoSession],
                             LAMBDA m : GetOrCreate(m, sid, t)),
                        LAMBDA m : RecordAndRefresh(m, sid, amount, t)),
                   LAMBDA m : ScoreAndUpdate(m, sid, score, t)),
              LAMBDA m : TerminateIfDue(m, sid, score, t)),
         LAMBDA m : BuildInfo(m, score))

\* DecisionResponse.ml_score = None: the ML stage was not evaluated
NoScore == -1

\* PolicyEngine._build_reasons for a transaction the rules did not block, with
\* an ML result that carries a score and no top features
_build_reasons(flags, ml_score) ==
    LET rule_reasons == [i \in 1..Len(flags) |-> [kind |-> "rule_triggered", of |-> flags[i]]]
        ml_reasons == IF ml_score > 0
                      THEN <<[kind |-> "fraud_probability", of |-> ml_score]>>
                      ELSE <<>>
        reasons == rule_reasons \o ml_reasons
    IN IF reasons = <<>> THEN <<[kind |-> "low_risk", of |-> NoId]>> ELSE reasons

\* decide that also takes a rule action of review for a block
RulesResultBlocked_or_review(rules_result) ==
    rules_result.blocked \/ rules_result.action = REVIEW

\* PolicyEngine.decide: rules_result.get("blocked", False)
RulesResultBlocked(rules_result) == rules_result.blocked

\* PolicyEngine.decide on the dict the decision route builds from the rule
\* result, [action, flags, blocked]: [decision_code, score, reasons]
decide_rules(th, rules_result, ml_score) ==
    LET blocked == RulesResultBlocked(rules_result)
        d == decide(th, blocked, ml_score)
    IN [decision_code |-> d.decision_code, score |-> d.score,
        reasons |-> IF blocked /\ rules_result.flags = <<>> /\ ml_score <= 0
                    THEN <<[kind |-> "blocked_by_rules", of |-> NoId]>>
                    ELSE _build_reasons(rules_result.flags, ml_score)]

\* the rule results handed to decide: the action, the flags that come with it,
\* and blocked set for a block only
VerdictFlags(action) ==
    CASE action = ALLOW -> {<<>>}
      [] action = STEP_UP -> {<<"amount_first_txn_high">>, <<"time_night_window">>}
      [] action = REVIEW -> {<<"amount_large">>, <<"velocity_high_value", "amount_large">>}
      [] OTHER -> {<<"denied_user">>, <<"velocity_user_1h">>}
VerdictResults ==
    UNION {[action : {a}, flags : VerdictFlags(a), blocked : {a = BLOCK}] :
              a \in {ALLOW, STEP_UP, REVIEW, BLOCK}}
VerdictScores == {0, 20, 35, 65, 90}
VerdictThresholds == {20, 35, 90}

\* a call of PolicyEngine.decide(rules_result, ml_result)
DecideVerdict(rules_result, ml_score) ==
    LET d == decide_rules(thresholds, rules_result, ml_score) IN
    /\ policy_last' = [op |-> "decide", blocked |-> rules_result.blocked,
                       ml_score |-> ml_score, decision_code |-> d.decision_code,
                       score |-> d.score, action |-> rules_result.action,
                       flags |-> rules_result.flags, reasons |-> d.reasons]
    /\ UNCHANGED thresholds
    /\ UNCHANGED otherThanPolicy

VerdictNext ==
    \/ \E r \in VerdictResults, ml_score \in VerdictScores : DecideVerdict(r, ml_score)
    \/ \E n \in ThresholdNames, v \in VerdictThresholds : update_threshold(n, v)

\* make_decision: the reason put in front when the session is terminated
SessionTerminatedReason(info) ==
    [kind |-> "session_terminated", of |-> info.termination_reason]

\* make_decision: the rules stage ends the pipeline, never
RulesBlocked_never(rules_result) == FALSE

\* make_decision: "If blocked by rules, return immediately"
RulesBlocked(rules_result) == rules_result.action = BLOCK

NoInfo ==
    [risk_score |-> 0, is_terminated |-> FALSE, termination_reason |-> NoReason,
     transaction_count |-> 0]

\* the response of an endpoint, as far as the session is concerned
SessResponse(op, sid, rules_blocked, stored_before, code, score, checked, info) ==
    [op |-> op, session_id |-> sid, rules_blocked |-> rules_blocked,
     stored_terminated_before |-> stored_before,
     decision_code |-> code, score |-> score,
     session_checked |-> checked, session_risk |-> info,
     reasons |-> <<>>, rule_flags |-> <<>>, ml_score |-> NoScore, ml_invoked |-> FALSE]

NoResponse == SessResponse("none", NoId, FALSE, FALSE, 0, 0, FALSE, NoInfo)

\* the history variable after a request: which sessions the store has held terminated
Terminated(db) ==
    [sid \in SessionIds |-> everTerminated[sid] \/ db[sid].is_terminated]

SessInit ==
    /\ session_store = [sid \in SessionIds |-> NoSession]
    /\ cacheD = [sid \in SessionIds |-> NoEntry]
    /\ cacheS = [sid \in SessionIds |-> NoEntry]
    /\ sess_now = 0
    /\ sess_last = NoResponse
    /\ everTerminated = [sid \in SessionIds |-> FALSE]
    /\ session_events = [sid \in SessionIds |-> <<>>]
    /\ sess_ticks = 0
    /\ sess_requests = 0

\* time passes between two requests
SessAdvance ==
    /\ sess_ticks < MaxSessTicks
    /\ sess_ticks' = sess_ticks + 1
    /\ \E d \in SessDeltas : sess_now' = sess_now + d
    /\ sess_last' = NoResponse
    /\ UNCHANGED <<session_store, cacheD, cacheS, everTerminated, session_events, sess_requests>>
    /\ UNCHANGED otherThanSession

\* POST /decision (make_decision): rules stage, ML stage, policy stage and,
\* when the request carries a session id, the session stage
DecisionRoute(txn, ml_score, sid, session_score) ==
    /\ sess_requests' = sess_requests + 1
    /\ \E rules_result \in {evaluate(RuleState, denied_users, denied_devices, denied_ips,
                                     denied_merchants, txn)} :
       \E c \in {IF Truthy(sid) /\ ~RulesBlocked(rules_result)
                 THEN check_session_behavior(cacheD, session_store, sid, txn.amount,
                                             session_score, sess_now)
                 ELSE [cache |-> cacheD, db |-> session_store, terminated |-> FALSE,
                       info |-> NoInfo]} :
       LET rules_blocked == RulesBlocked(rules_result)
           decision == decide(thresholds, FALSE, ml_score)
           checked == ~rules_blocked /\ Truthy(sid)
           overridden == checked /\ c.info.is_terminated
           stored_before == Truthy(sid) /\ session_store[sid].is_terminated
       IN
       /\ velocity_tracker' = rules_result.st.vt
       /\ user_transaction_count' = rules_result.st.cnt
       /\ user_amounts' = rules_result.st.amts
       /\ rule_last' = [op |-> "evaluate", txn |-> txn, action |-> rules_result.action,
                        reasons |-> rules_result.reasons]
       /\ rule_log' = Append(rule_log, LogEntry(RuleState, rules_result, txn))
       /\ session_store' = c.db
       /\ cacheD' = c.cache
       /\ everTerminated' = Terminated(c.db)
       /\ session_events' = IF Truthy(sid)
                             THEN store_session_event(session_events, sid, c.terminated,
                                                      CriticalReason, sess_now)
                             ELSE session_events
       /\ sess_last' =
             [SessResponse("decision", sid, rules_blocked, stored_before,
                           IF rules_blocked \/ overridden THEN DecisionCode_BLOCK
                           ELSE decision.decision_code,
                           IF rules_blocked \/ overridden THEN ScoreUnit ELSE decision.score,
                           checked, c.info)
              EXCEPT !.reasons =
                        IF rules_blocked THEN rules_result.reasons
                        ELSE (IF overridden THEN <<SessionTerminatedReason(c.info)>> ELSE <<>>)
                             \o _build_reasons(rules_result.reasons, ml_score),
                     !.rule_flags = rules_result.reasons,
                     !.ml_score = IF rules_blocked THEN NoScore ELSE ml_score,
                     !.ml_invoked = ~rules_blocked]
    /\ UNCHANGED <<cacheS, sess_now, sess_ticks>>
    /\ UNCHANGED <<denied_users, denied_devices, denied_ips, denied_merchants, rule_evals>>
    /\ UNCHANGED policyVars

\* a decision request that reaches the route
make_decision(txn, ml_score, sid, session_score) ==
    /\ sess_requests < MaxSessRequests
    /\ DecisionRoute(txn, ml_score, sid, session_score)
    /\ UNCHANGED <<rlVars, secVars, poolVars, storeVars, mwVars, rateVars, scorerVars>>

\* POST /sessions/{session_id}/terminate of the sessions route
terminate_session_endpoint(sid) ==
    /\ Len(session_events[sid]) < MaxTerminations
    /\ \E g1 \in {get_session(cacheS, session_store, sid, sess_now)} :
       \E term \in {terminate_session(g1.cache, session_store, sid, ManualReason)} :
       \E g2 \in {get_session(term.cache, term.db, sid, sess_now)} :
       /\ IF ~g1.session.exists
          THEN /\ sess_last' = SessResponse("terminate_404", sid, FALSE,
                                            session_store[sid].is_terminated, 0, 0, FALSE, NoInfo)
               /\ UNCHANGED <<session_store, cacheS, everTerminated, session_events>>
          ELSE /\ session_store' = term.db
               /\ session_events' = store_session_event(session_events, sid, term.success,
                                                        ManualReason, sess_now)
               /\ cacheS' = g2.cache
               /\ everTerminated' = Terminated(term.db)
               /\ sess_last' =
                     SessResponse("terminate", sid, FALSE, session_store[sid].is_terminated,
                                  0, 0, FALSE,
                                  [risk_score |-> g2.session.risk_score,
                                   is_terminated |-> g2.session.is_terminated,
                                   termination_reason |-> g2.session.termination_reason,
                                   transaction_count |-> g2.session.transaction_count])
    /\ UNCHANGED <<cacheD, sess_now, sess_ticks, sess_requests>>
    /\ UNCHANGED otherThanSession

\* GET /sessions/{session_id} of the sessions route
get_session_endpoint(sid) ==
    \E g \in {get_session(cacheS, session_store, sid, sess_now)} :
    /\ cacheS' = g.cache
    /\ sess_last' =
          SessResponse(IF g.session.exists THEN "get" ELSE "get_404", sid, FALSE,
                       session_store[sid].is_terminated, 0, 0, FALSE,
                       [risk_score |-> g.session.risk_score,
                        is_terminated |-> g.session.is_terminated,
                        termination_reason |-> g.session.termination_reason,
                        transaction_count |-> g.session.transaction_count])
    /\ UNCHANGED <<session_store, cacheD, sess_now, everTerminated, session_events,
                   sess_ticks, sess_requests>>
    /\ UNCHANGED otherThanSession

SessionNext ==
    \/ SessAdvance
    \/ \E txn \in SessTxns, ml_score \in SessMlScores,
          sid \in SessionIds \cup {NoId}, session_score \in SessScores :
          make_decision(txn, ml_score, sid, session_score)
    \/ \E sid \in SessionIds : terminate_session_endpoint(sid)
    \/ \E sid \in SessionIds : get_session_endpoint(sid)

(***************************************************************************)
(* record_transaction calls for one session running on a worker pool of    *)
(* the decision route's monitor: each call the method makes on the cache   *)
(* or the store is a step of its own.                                      *)
(***************************************************************************)
PoolSession == "sess1"
PoolAmounts == {10, 25}
\* transactions the session has recorded before the concurrent calls arrive
PoolRecorded == {0, 2}
\* when they arrive: while the cache entry is fresh, or once it has expired
PoolArrivals == {0, cache_ttl}

RECURSIVE RecordedAfter(_, _)
RecordedAfter(m, n) ==
    IF n = 0 THEN m
    ELSE Then(RecordedAfter(m, n - 1),
              LAMBDA m1 : record_transaction(m1.cache, m1.db, PoolSession, 10, 0))

SessPoolInit ==
    \E n \in PoolRecorded, t \in PoolArrivals :
    \E m \in {RecordedAfter(create_session([sid \in SessionIds |-> NoEntry],
                                            [sid \in SessionIds |-> NoSession],
                                            PoolSession, 0), n)} :
       /\ session_store = m.db
       /\ cacheD = m.cache
       /\ cacheS = [sid \in SessionIds |-> NoEntry]
       /\ sess_now = t
       /\ sess_last = NoResponse
       /\ everTerminated = [sid \in SessionIds |-> FALSE]
       /\ session_events = [sid \in SessionIds |-> <<>>]
       /\ sess_ticks = 0
       /\ sess_requests = n
       /\ sess_pool = [frames |-> [w \in PoolWorkers |-> NoFrame],
                       recorded |-> [i \in 1..n |-> 10]]

SessFrame(w, pc, amount, session) ==
    sess_pool' = [sess_pool EXCEPT !.frames[w] =
                     [pc |-> pc, amount |-> amount, session |-> session]]

\* record_transaction, `session = self.get_session(session_id)`
RecGet(w, amount) ==
    /\ sess_pool.frames[w].pc = "idle"
    /\ \E g \in {get_session(cacheD, session_store, PoolSession, sess_now)} :
          /\ cacheD' = g.cache
          /\ SessFrame(w, IF g.session.exists THEN "update_metrics" ELSE "done",
                       amount, g.session)
    /\ UNCHANGED <<session_store, cacheS, sess_now, sess_last, everTerminated, session_events,
                   sess_ticks, sess_requests>>
    /\ UNCHANGED otherThanSessPool

\* record_transaction, session.update_metrics(...) and the transaction event stored
RecEvent(w) ==
    LET f == sess_pool.frames[w] IN
    /\ f.pc = "update_metrics"
    /\ sess_pool' = [sess_pool EXCEPT
                        !.frames[w] = [pc |-> "update_session", amount |-> f.amount,
                                       session |-> update_metrics(f.session, f.amount)],
                        !.recorded = Append(@, f.amount)]
    /\ UNCHANGED sessVars
    /\ UNCHANGED otherThanSessPool

\* record_transaction, `self.update_session(session)` and the return
RecStore(w) ==
    LET f == sess_pool.frames[w] IN
    /\ f.pc = "update_session"
    /\ \E u \in {update_session(cacheD, session_store, PoolSession, f.session, sess_now)} :
          /\ cacheD' = u.cache
          /\ session_store' = u.db
    /\ SessFrame(w, "done", f.amount, f.session)
    /\ UNCHANGED <<cacheS, sess_now, sess_last, everTerminated, session_events,
                   sess_ticks, sess_requests>>
    /\ UNCHANGED otherThanSessPool

SessPoolNext ==
    \/ \E w \in PoolWorkers, amount \in PoolAmounts : RecGet(w, amount)
    \/ \E w \in PoolWorkers : RecEvent(w)
    \/ \E w \in PoolWorkers : RecStore(w)

(***************************************************************************)
(* InstituteSecurityEngine (api/models/institute_security.py)              *)
(***************************************************************************)
MaxSecTicks == 1         \* clock advances per run of the security engine
MaxSecCalls == 2         \* monitor calls per run, after the recorded history

SecSources == {"s1"}
NormalEndpoint == "/v1/decision"
SensitiveEndpoint == "/admin"
SecEndpoints == {NormalEndpoint, SensitiveEndpoint}
\* the endpoints that contain one of the sensitive_endpoints substrings
SensitiveEndpoints == {SensitiveEndpoint}
DataTypes == {"customer_records"}
RecordCounts == {10, 100}
\* the engine starts at 21:59:30; the clock moves on by 30 or 61 seconds
SecStart == 79170
SecDeltas == {30, 61}
Hours == 0..23
SecondsPerHour == 3600

\* ThreatLevel
ThreatLevel_MEDIUM == 2
ThreatLevel_HIGH == 3
ThreatLevel_CRITICAL == 4
\* ThreatType
API_ABUSE == "api_abuse"
BRUTE_FORCE == "brute_force"
DATA_EXFILTRATION == "data_exfiltration"
PRIVILEGE_ESCALATION == "privilege_escalation"
UNUSUAL_ACCESS == "unusual_access"

\* InstituteSecurityEngine.__init__: config
api_requests_per_minute_warning == 100
api_requests_per_minute_critical == 500
api_error_rate_warning_pct == 10
api_error_rate_critical_pct == 25
failed_auth_attempts_warning == 5
failed_auth_attempts_critical == 10
failed_auth_window_seconds == 900
unusual_data_volume_multiplier == 3
rapid_requests_window_seconds == 60
rapid_requests_threshold == 50
off_hours_access_start == 22
off_hours_access_end == 6
ApiHistoryMaxlen == 1000
FailedAuthMaxlen == 100
SecurityEventsMaxlen == 10000
MinuteWindow == 60
ErrorSampleMin == 10
ErrorSampleLen == 50
OffHoursMinHistory == 20
DataHistoryMin == 5

NoEvent == [threat_type |-> "none", threat_level |-> -1, requires_review |-> FALSE]
SecurityEvent(type, level, review) ==
    [threat_type |-> type, threat_level |-> level, requires_review |-> review]

\* _security_events.append(event): the number of events kept after it
StoreEvent(n) == Min(n + 1, SecurityEventsMaxlen)

\* deque(maxlen=n).append: the last n elements are kept
AppendMaxlen(q, x, n) ==
    IF Len(q) >= n THEN Append(SubSeq(q, Len(q) - n + 2, Len(q)), x) ELSE Append(q, x)

HourOf(t) == (t \div SecondsPerHour) % 24
IsOffHour(h) == h >= off_hours_access_start \/ h < off_hours_access_end

\* number of requests of a history with a timestamp after start
CountAfter(requests, start) ==
    Cardinality({i \in 1..Len(requests) : requests[i].timestamp > start})

\* requires_review of an event whose level is critical left unset
RequiresReview_high_only(threat_level) == threat_level = ThreatLevel_HIGH

\* requires_review = threat_level.value >= ThreatLevel.HIGH.value
RequiresReview(threat_level) == threat_level >= ThreatLevel_HIGH

\* InstituteSecurityEngine._check_request_rate
_check_request_rate(requests, current_time) ==
    LET recent_requests == CountAfter(requests, current_time - MinuteWindow)
        rapid_requests == CountAfter(requests, current_time - rapid_requests_window_seconds)
    IN IF recent_requests >= api_requests_per_minute_critical
       THEN SecurityEvent(API_ABUSE, ThreatLevel_CRITICAL,
                          RequiresReview(ThreatLevel_CRITICAL))
       ELSE IF recent_requests >= api_requests_per_minute_warning
       THEN SecurityEvent(API_ABUSE, ThreatLevel_HIGH, RequiresReview(ThreatLevel_HIGH))
       ELSE IF rapid_requests >= rapid_requests_threshold
       THEN SecurityEvent(API_ABUSE, ThreatLevel_MEDIUM, RequiresReview(ThreatLevel_MEDIUM))
       ELSE NoEvent

\* InstituteSecurityEngine._check_error_rate (rates compared as percentages)
_check_error_rate(requests) ==
    LET n == Min(Len(requests), ErrorSampleLen)
        first == Len(requests) - n + 1
        error_count == Cardinality({i \in first..Len(requests) : ~requests[i].success})
    IN IF Len(requests) < ErrorSampleMin THEN NoEvent
       ELSE IF error_count * 100 >= api_error_rate_critical_pct * n
       THEN SecurityEvent(API_ABUSE, ThreatLevel_HIGH, TRUE)
       ELSE IF error_count * 100 >= api_error_rate_warning_pct * n
       THEN SecurityEvent(API_ABUSE, ThreatLevel_MEDIUM, TRUE)
       ELSE NoEvent

RECURSIVE SumOver(_, _)
SumOver(f, S) ==
    IF S = {} THEN 0 ELSE LET x == CHOOSE y \in S : TRUE IN f[x] + SumOver(f, S \ {x})

\* InstituteSecurityEngine._check_off_hours_access (ratio < 0.1 without the division)
_check_off_hours_access(hourly_distribution, hour, force_off_hours) ==
    LET total_requests == SumOver(hourly_distribution, Hours)
        off_hours_count == SumOver(hourly_distribution, {h \in Hours : IsOffHour(h)})
    IN IF ~(force_off_hours \/ IsOffHour(hour)) THEN NoEvent
       ELSE IF force_off_hours THEN SecurityEvent(UNUSUAL_ACCESS, ThreatLevel_HIGH, TRUE)
       ELSE IF total_requests < OffHoursMinHistory THEN NoEvent
       ELSE IF off_hours_count * 10 < total_requests
       THEN SecurityEvent(UNUSUAL_ACCESS, ThreatLevel_MEDIUM, TRUE)
       ELSE NoEvent

\* InstituteSecurityEngine._check_unusual_endpoint_access
_check_unusual_endpoint_access(endpoints, endpoint) ==
    IF endpoint \in SensitiveEndpoints /\ endpoints[endpoint] <= 1
    THEN SecurityEvent(PRIVILEGE_ESCALATION, ThreatLevel_HIGH, TRUE)
    ELSE NoEvent

\* max(events, key=threat_level): the first event of the highest level
RECURSIVE MaxEvent(_)
MaxEvent(events) ==
    IF Len(events) = 1 THEN events[1]
    ELSE LET rest == MaxEvent(Tail(events)) IN
         IF rest.threat_level > Head(events).threat_level THEN rest ELSE Head(events)

\* monitor_api_request: the event of the highest level, whatever its type
Prioritize_highest(detected_events) ==
    IF detected_events /= <<>> THEN MaxEvent(detected_events) ELSE NoEvent

\* monitor_api_request, "Prioritize: specific threats > generic API abuse"
Prioritize(detected_events) ==
    LET IsSpecific(e) == e.threat_type /= API_ABUSE
        IsAbuse(e) == e.threat_type = API_ABUSE
        specific_threats == SelectSeq(detected_events, IsSpecific)
        api_abuse_threats == SelectSeq(detected_events, IsAbuse)
    IN IF specific_threats /= <<>> THEN MaxEvent(specific_threats)
       ELSE IF api_abuse_threats /= <<>> THEN MaxEvent(api_abuse_threats)
       ELSE NoEvent

\* the engine state handed through the monitor operators
SecState ==
    [history |-> api_request_history, auth |-> failed_auth_tracking,
     patterns |-> user_access_patterns, events |-> security_events,
     blocked |-> blocked_sources]

NewPattern ==
    [endpoints |-> [ep \in SecEndpoints |-> 0],
     hourly_distribution |-> [h \in Hours |-> 0],
     data |-> [d \in DataTypes |-> [total |-> 0, count |-> 0]]]

\* InstituteSecurityEngine.__init__
EmptySec ==
    [history |-> [src \in SecSources |-> <<>>], auth |-> [src \in SecSources |-> <<>>],
     patterns |-> [src \in SecSources |-> NewPattern], events |-> 0, blocked |-> {}]

\* monitor_api_request, "Track request" and "Update access patterns"
TrackRequest(e, source_id, endpoint, success, t) ==
    [e EXCEPT !.history[source_id] =
                  AppendMaxlen(@, [timestamp |-> t, success |-> success], ApiHistoryMaxlen),
              !.patterns[source_id].endpoints[endpoint] = @ + 1,
              !.patterns[source_id].hourly_distribution[HourOf(t)] = @ + 1]

\* monitor_api_request, "Check for various threats": the events detected, in order
DetectedEvents(e, source_id, endpoint, success, simulate_off_hours, t) ==
    LET Some(ev) == IF ev = NoEvent THEN <<>> ELSE <<ev>> IN
    Some(_check_off_hours_access(e.patterns[source_id].hourly_distribution, HourOf(t),
                                 simulate_off_hours))
    \o Some(_check_unusual_endpoint_access(e.patterns[source_id].endpoints, endpoint))
    \o (IF ~success THEN Some(_check_error_rate(e.history[source_id])) ELSE <<>>)
    \o Some(_check_request_rate(e.history[source_id], t))

\* monitor_api_request, "Store event if detected" and "Block source"
StoreAndBlock(e, source_id, event) ==
    [e |-> [e EXCEPT !.events = IF event = NoEvent THEN @ ELSE StoreEvent(@),
                     !.blocked = IF event /= NoEvent /\ event.threat_level >= ThreatLevel_HIGH
                                 THEN @ \cup {source_id} ELSE @],
     event |-> event]

\* InstituteSecurityEngine.monitor_api_request: [e, event, detected], detected
\* being the events its checks yielded before one was chosen
monitor_api_request(e, source_id, endpoint, success, simulate_off_hours, t) ==
    Then(TrackRequest(e, source_id, endpoint, success, t),
         LAMBDA e1 :
            Then(DetectedEvents(e1, source_id, endpoint, success, simulate_off_hours, t),
                 LAMBDA detected_events :
                    Then(StoreAndBlock(e1, source_id, Prioritize(detected_events)),
                         LAMBDA r : [e |-> r.e, event |-> r.event,
                                     detected |-> detected_events])))

\* the failed attempts with none of them dropped
CleanOld_never(q, t) == q

\* the failed attempts left after popleft of those older than the window
RECURSIVE CleanOld(_, _)
CleanOld(q, t) ==
    IF q /= <<>> /\ t - Head(q) > failed_auth_window_seconds THEN CleanOld(Tail(q), t) ELSE q

\* a successful authentication that also lifts the block of the source
ClearFailedAttempts_unblocking(e, source_id) ==
    [e EXCEPT !.auth[source_id] = <<>>, !.blocked = @ \ {source_id}]

\* monitor_authentication, "clear failed attempts on successful auth"
ClearFailedAttempts(e, source_id) == [e EXCEPT !.auth[source_id] = <<>>]

\* InstituteSecurityEngine.monitor_authentication: [e, event]
monitor_authentication(e, source_id, success, t) ==
    IF success
    THEN [e |-> ClearFailedAttempts(e, source_id), event |-> NoEvent]
    ELSE Then(CleanOld(AppendMaxlen(e.auth[source_id], t, FailedAuthMaxlen), t),
              LAMBDA attempts :
                 LET failure_count == Len(attempts)
                     e1 == [e EXCEPT !.auth[source_id] = attempts]
                 IN IF failure_count >= failed_auth_attempts_critical
                    THEN [e |-> [e1 EXCEPT !.blocked = @ \cup {source_id}, !.events = StoreEvent(@)],
                          event |-> SecurityEvent(BRUTE_FORCE, ThreatLevel_CRITICAL,
                                                  RequiresReview(ThreatLevel_CRITICAL))]
                    ELSE IF failure_count >= failed_auth_attempts_warning
                    THEN [e |-> [e1 EXCEPT !.events = StoreEvent(@)],
                          event |-> SecurityEvent(BRUTE_FORCE, ThreatLevel_HIGH,
                                                  RequiresReview(ThreatLevel_HIGH))]
                    ELSE [e |-> e1, event |-> NoEvent])

\* InstituteSecurityEngine.monitor_data_access: [e, event]
\* (record_count > avg * multiplier is compared without the division)
monitor_data_access(e, source_id, data_type, record_count, sensitive) ==
    Then([total |-> e.patterns[source_id].data[data_type].total + record_count,
          count |-> e.patterns[source_id].data[data_type].count + 1],
         LAMBDA data_stats :
            LET e1 == [e EXCEPT !.patterns[source_id].data[data_type] = data_stats]
                unusual == /\ data_stats.count > DataHistoryMin
                           /\ record_count * data_stats.count
                                > data_stats.total * unusual_data_volume_multiplier
            IN IF unusual
               THEN [e |-> [e1 EXCEPT !.events = StoreEvent(@)],
                     event |-> SecurityEvent(DATA_EXFILTRATION,
                                             IF sensitive THEN ThreatLevel_CRITICAL
                                             ELSE ThreatLevel_HIGH, TRUE)]
               ELSE [e |-> e1, event |-> NoEvent])

\* InstituteSecurityEngine.unblock_source
sec_unblock_source(e, source_id) == [e EXCEPT !.blocked = @ \ {source_id}]

\* what the engine has recorded before the run: requests of one minute, failed
\* authentications and data accesses, all made at SecStart
SecHistories ==
    {[requests |-> 0, failures |-> 0, accesses |-> 0],
     [requests |-> api_requests_per_minute_warning - 1,
      failures |-> failed_auth_attempts_warning - 1, accesses |-> DataHistoryMin],
     [requests |-> api_requests_per_minute_critical - 1,
      failures |-> failed_auth_attempts_warning - 1, accesses |-> DataHistoryMin]}

\* the engine after n more calls of one kind, made one after the other
\* (the first half of the calls, then the rest)
RECURSIVE ApiRequestsAfter(_, _, _)
ApiRequestsAfter(e, source_id, n) ==
    IF n = 0 THEN e
    ELSE IF n = 1
    THEN monitor_api_request(e, source_id, NormalEndpoint, TRUE, FALSE, SecStart).e
    ELSE Then(ApiRequestsAfter(e, source_id, n \div 2),
              LAMBDA e1 : ApiRequestsAfter(e1, source_id, n - n \div 2))

RECURSIVE AuthFailuresAfter(_, _, _)
AuthFailuresAfter(e, source_id, n) ==
    IF n = 0 THEN e
    ELSE Then(AuthFailuresAfter(e, source_id, n - 1),
              LAMBDA e1 : monitor_authentication(e1, source_id, FALSE, SecStart).e)

RECURSIVE DataAccessesAfter(_, _, _)
DataAccessesAfter(e, source_id, n) ==
    IF n = 0 THEN e
    ELSE Then(DataAccessesAfter(e, source_id, n - 1),
              LAMBDA e1 : monitor_data_access(e1, source_id, "customer_records", 10,
                                              FALSE).e)

\* the engine after the calls of a history
SecAfter(h, source_id) ==
    DataAccessesAfter(
        AuthFailuresAfter(ApiRequestsAfter(EmptySec, source_id, h.requests),
                          source_id, h.failures),
        source_id, h.accesses)

\* the arguments of a monitor call that its checks depend on
CallArgs(endpoint, success, simulate_off_hours) ==
    [endpoint |-> endpoint, success |-> success, simulate_off_hours |-> simulate_off_hours]
NoArgs == CallArgs("none", FALSE, FALSE)
\* the arguments of a monitor_data_access call
DataArgs(data_type, record_count, sensitive) ==
    [data_type |-> data_type, record_count |-> record_count, sensitive |-> sensitive]

NoCall ==
    [op |-> "none", source_id |-> "none", t |-> 0, args |-> NoArgs, event |-> NoEvent,
     detected |-> <<>>]

SecStart_state(e, failures) ==
    /\ auth_log = [src \in SecSources |->
                      [i \in 1..failures |-> [t |-> SecStart, success |-> FALSE]]]
    /\ sec_now = SecStart
    /\ api_request_history = e.history
    /\ failed_auth_tracking = e.auth
    /\ user_access_patterns = e.patterns
    /\ security_events = e.events
    /\ blocked_sources = e.blocked
    /\ sec_last = NoCall
    /\ sec_ticks = 0
    /\ sec_calls = 0

\* the engine as constructed, with nothing recorded
SecIdle == SecStart_state(EmptySec, 0)

SecInit ==
    \E h \in SecHistories : \E e \in {SecAfter(h, "s1")} : SecStart_state(e, h.failures)

\* failed authentications recorded before a run of the authentication monitor:
\* none, one less than the warning floor, one less than the critical floor
AuthHistories ==
    {0, failed_auth_attempts_warning - 1, failed_auth_attempts_critical - 1}
\* the clock moves on by half a minute or by just more than the window
AuthDeltas == {30, failed_auth_window_seconds + 1}

AuthInit ==
    \E n \in AuthHistories : \E e \in {AuthFailuresAfter(EmptySec, "s1", n)} :
        SecStart_state(e, n)

\* the engine's fields and the returned event after a monitor call
SecFields(op, source_id, args, r) ==
    /\ api_request_history' = r.e.history
    /\ failed_auth_tracking' = r.e.auth
    /\ user_access_patterns' = r.e.patterns
    /\ security_events' = r.e.events
    /\ blocked_sources' = r.e.blocked
    /\ sec_last' = [op |-> op, source_id |-> source_id, t |-> sec_now, args |-> args,
                    event |-> r.event,
                    detected |-> IF op = "monitor_api_request" THEN r.detected ELSE <<>>]
    /\ auth_log' = IF op = "monitor_authentication"
                   THEN [auth_log EXCEPT ![source_id] =
                            Append(@, [t |-> sec_now, success |-> args.success])]
                   ELSE auth_log
    /\ sec_calls' = sec_calls + 1
    /\ UNCHANGED <<sec_now, sec_ticks>>

SecResult(op, source_id, args, r) ==
    /\ SecFields(op, source_id, args, r)
    /\ UNCHANGED otherThanSec

SecAdvance(d) ==
    /\ sec_ticks < MaxSecTicks
    /\ sec_now' = sec_now + d
    /\ sec_ticks' = sec_ticks + 1
    /\ UNCHANGED <<api_request_history, failed_auth_tracking, user_access_patterns,
                   security_events, blocked_sources, sec_last, auth_log, sec_calls>>
    /\ UNCHANGED otherThanSec

MonitorApiRequest(source_id, endpoint, success, simulate_off_hours) ==
    /\ sec_calls < MaxSecCalls
    /\ \E r \in {monitor_api_request(SecState, source_id, endpoint, success,
                                     simulate_off_hours, sec_now)} :
          SecResult("monitor_api_request", source_id,
                    CallArgs(endpoint, success, simulate_off_hours), r)

MonitorAuthentication(source_id, success) ==
    /\ sec_calls < MaxSecCalls
    /\ \E r \in {monitor_authentication(SecState, source_id, success, sec_now)} :
          SecResult("monitor_authentication", source_id, CallArgs("none", success, FALSE), r)

MonitorDataAccess(source_id, data_type, record_count, sensitive) ==
    /\ sec_calls < MaxSecCalls
    /\ \E r \in {monitor_data_access(SecState, source_id, data_type, record_count,
                                     sensitive)} :
          SecResult("monitor_data_access", source_id,
                    DataArgs(data_type, record_count, sensitive), r)

UnblockSource(source_id) ==
    /\ source_id \in blocked_sources
    /\ blocked_sources' = sec_unblock_source(SecState, source_id).blocked
    /\ sec_last' = [op |-> "unblock_source", source_id |-> source_id, t |-> sec_now,
                    args |-> NoArgs, event |-> NoEvent, detected |-> <<>>]
    /\ UNCHANGED <<sec_now, api_request_history, failed_auth_tracking, user_access_patterns,
                   security_events, auth_log, sec_ticks, sec_calls>>
    /\ UNCHANGED otherThanSec

SecNext ==
    \/ \E d \in SecDeltas : SecAdvance(d)
    \/ \E src \in SecSources, ep \in SecEndpoints, ok \in BOOLEAN, sim \in BOOLEAN :
          MonitorApiRequest(src, ep, ok, sim)
    \/ \E src \in SecSources, ok \in BOOLEAN : MonitorAuthentication(src, ok)
    \/ \E src \in SecSources, dt \in DataTypes, n \in RecordCounts, sens \in BOOLEAN :
          MonitorDataAccess(src, dt, n, sens)
    \/ \E src \in SecSources : UnblockSource(src)

\* accesses recorded before a run of the data access monitor, ten records each:
\* none, one less than the baseline needs, exactly the baseline
DataHistories == {0, DataHistoryMin - 1, DataHistoryMin}
\* volumes of the accesses of the run: the usual one, three, four and ten times it
DataRecordCounts == {10, 30, 40, 100}

DataInit ==
    \E n \in DataHistories : \E e \in {DataAccessesAfter(EmptySec, "s1", n)} :
        SecStart_state(e, 0)

\* the data access monitor alone
DataNext ==
    \E src \in SecSources, dt \in DataTypes, n \in DataRecordCounts, sens \in BOOLEAN :
        MonitorDataAccess(src, dt, n, sens)

\* histories that leave each monitor one call below its critical floor, or
\* its warning floor
ReviewHistories ==
    {[requests |-> api_requests_per_minute_critical - 1,
      failures |-> failed_auth_attempts_critical - 1, accesses |-> DataHistoryMin],
     [requests |-> api_requests_per_minute_warning - 1,
      failures |-> failed_auth_attempts_warning - 1, accesses |-> DataHistoryMin]}

ReviewInit ==
    \E h \in ReviewHistories : \E e \in {SecAfter(h, "s1")} : SecStart_state(e, h.failures)

\* the three monitors, called at one instant
ReviewNext ==
    \/ \E src \in SecSources, ep \in SecEndpoints, ok \in BOOLEAN :
          MonitorApiRequest(src, ep, ok, FALSE)
    \/ \E src \in SecSources, ok \in BOOLEAN : MonitorAuthentication(src, ok)
    \/ \E src \in SecSources, dt \in DataTypes, n \in RecordCounts, sens \in BOOLEAN :
          MonitorDataAccess(src, dt, n, sens)

\* InstituteSecurityEngine.is_source_blocked
sec_is_source_blocked(e, source_id) == source_id \in e.blocked

\* InstituteSecurityEngine.unblock_source, the value it returns
sec_unblock_returns(e, source_id) == source_id \in e.blocked

\* a call of unblock_source for any source, blocked or not
UnblockSourceCall(source_id) ==
    /\ blocked_sources' = sec_unblock_source(SecState, source_id).blocked
    /\ sec_last' = [op |-> "unblock_source", source_id |-> source_id, t |-> sec_now,
                    args |-> NoArgs, event |-> NoEvent, detected |-> <<>>,
                    returned |-> sec_unblock_returns(SecState, source_id)]
    /\ UNCHANGED <<sec_now, api_request_history, failed_auth_tracking, user_access_patterns,
                   security_events, auth_log, sec_ticks, sec_calls>>
    /\ UNCHANGED otherThanSec

\* observations of a source after its recorded history, in any order
MaxObservations == 3
ObserveApiRequest(source_id, endpoint, success) ==
    /\ sec_calls < MaxObservations
    /\ \E r \in {monitor_api_request(SecState, source_id, endpoint, success, FALSE,
                                     sec_now)} :
          SecResult("monitor_api_request", source_id, CallArgs(endpoint, success, FALSE), r)

ObserveAuthentication(source_id, success) ==
    /\ sec_calls < MaxObservations
    /\ \E r \in {monitor_authentication(SecState, source_id, success, sec_now)} :
          SecResult("monitor_authentication", source_id, CallArgs("none", success, FALSE), r)

ObserveDataAccess(source_id, data_type, record_count) ==
    /\ sec_calls < MaxObservations
    /\ \E r \in {monitor_data_access(SecState, source_id, data_type, record_count, TRUE)} :
          SecResult("monitor_data_access", source_id,
                    DataArgs(data_type, record_count, TRUE), r)

BlockedSetNext ==
    \/ \E d \in SecDeltas : SecAdvance(d)
    \/ \E src \in SecSources, ok \in BOOLEAN : ObserveApiRequest(src, NormalEndpoint, ok)
    \/ \E src \in SecSources, ok \in BOOLEAN : ObserveAuthentication(src, ok)
    \/ \E src \in SecSources, n \in RecordCounts :
          ObserveDataAccess(src, "customer_records", n)
    \/ \E src \in SecSources : UnblockSourceCall(src)

\* the authentication monitor alone: attempts, unblocking and the clock
AuthNext ==
    \/ \E d \in AuthDeltas : SecAdvance(d)
    \/ \E src \in SecSources, ok \in BOOLEAN : MonitorAuthentication(src, ok)
    \/ \E src \in SecSources : UnblockSource(src)

(***************************************************************************)
(* HTTP middleware (src/api/main.py, security_monitoring_middleware)       *)
(***************************************************************************)
MaxMWRequests == 2       \* requests per run of the middleware

\* the source the requests come from (X-Source-ID, or the client host)
MWSource == "s1"
DecisionPath == "/v1/decision"
BlockedSourcesPath == "/v1/security/sources/blocked"

bypass_paths ==
    {"/", "/health", "/docs", "/redoc", "/openapi.json",
     "/v1/security/events", "/v1/security/dashboard", "/v1/security/audit-trail",
     "/v1/security/health", "/v1/decision/health"}
\* the paths of the requests that start with /v1/security/
SecurityPaths ==
    {"/v1/security/events", "/v1/security/dashboard", "/v1/security/audit-trail",
     "/v1/security/health", BlockedSourcesPath}

\* the requests: a decision, a health probe and a read of the block list
MWRequests ==
    {[path |-> DecisionPath, method |-> "POST"],
     [path |-> "/health", method |-> "GET"],
     [path |-> BlockedSourcesPath, method |-> "GET"]}

\* the header a request carries besides its body, if any
NoHeader == [name |-> "none", value |-> "none"]
MWHeaders ==
    {NoHeader,
     [name |-> "X-Auth-Result", value |-> "failed"],
     [name |-> "X-Auth-Result", value |-> "success"],
     [name |-> "X-Records-Accessed", value |-> "100"],
     [name |-> "X-Records-Accessed", value |-> "many"],
     [name |-> "X-Access-Time", value |-> "off-hours"]}

\* the storage calls of the middleware; at most one kind fails during a request
StorageCalls == {"log_api_access", "store_event", "block_source"}
NoFailure == "none"

\* int(records_accessed): the number, or NoInt where int raises ValueError
NoInt == -1
IntOf(value) ==
    CASE value = "10" -> 10
      [] value = "100" -> 100
      [] OTHER -> NoInt

is_security_test(header) ==
    header.name \in {"X-Auth-Result", "X-Records-Accessed", "X-Access-Time"}

is_security_get(path, method) == path \in SecurityPaths /\ method = "GET"

should_rate_limit(path, method, header) ==
    /\ path \notin bypass_paths
    /\ ~is_security_get(path, method)
    /\ ~is_security_test(header)

should_monitor(path, method) == path \notin bypass_paths /\ ~is_security_get(path, method)

\* the monitor the middleware calls for a request, with what it returns
NoMonitorCall == [op |-> "none", args |-> NoArgs, r |-> [e |-> EmptySec, event |-> NoEvent]]
MonitorCall(e, path, header, success, rejected, t) ==
    IF rejected
    THEN [op |-> "monitor_api_request", args |-> CallArgs(path, FALSE, FALSE),
          r |-> monitor_api_request(e, MWSource, path, FALSE, FALSE, t)]
    ELSE IF header.name = "X-Auth-Result"
    THEN [op |-> "monitor_authentication",
          args |-> CallArgs("none", header.value = "success", FALSE),
          r |-> monitor_authentication(e, MWSource, header.value = "success", t)]
    ELSE IF header.name = "X-Records-Accessed"
    THEN IF IntOf(header.value) = NoInt
         THEN NoMonitorCall
         ELSE [op |-> "monitor_data_access",
               args |-> DataArgs("customer_records", IntOf(header.value), TRUE),
               r |-> monitor_data_access(e, MWSource, "customer_records",
                                         IntOf(header.value), TRUE)]
    ELSE [op |-> "monitor_api_request",
          args |-> CallArgs(path, success, header.value = "off-hours"),
          r |-> monitor_api_request(e, MWSource, path, success,
                                    header.value = "off-hours", t)]

\* a middleware that also turns away the sources of the detector's blocked set
RequestRejected_blocked(limited, allowed) ==
    (limited /\ ~allowed) \/ MWSource \in blocked_sources

\* security_monitoring_middleware: "if should_rate_limit: ... if not allowed"
RequestRejected(limited, allowed) == limited /\ ~allowed

\* one request through the middleware: the rate limit check, the route, the
\* access log, the monitor, and the persistence of the event and of the block
security_monitoring_middleware(path, method, header, failing, txn, ml_score) ==
    LET limited == should_rate_limit(path, method, header) IN
    /\ mw_requests < MaxMWRequests
    /\ mw_requests' = mw_requests + 1
    /\ IF limited THEN RateLimiterCheck(MWSource, 1) ELSE UNCHANGED rlVars
    /\ \E rejected \in {RequestRejected(limited, rl_last'.allowed)} :
       \E routed \in {~rejected /\ path = DecisionPath} :
       \E log_failed \in {failing = "log_api_access"} :
       \E call \in {IF log_failed \/ (~rejected /\ ~should_monitor(path, method))
                    THEN NoMonitorCall
                    ELSE MonitorCall(SecState, path, header, TRUE, rejected, sec_now)} :
       \E event \in {call.r.event} :
       \E store_failed \in {event /= NoEvent /\ failing = "store_event"} :
       \E blocking \in {/\ event /= NoEvent
                        /\ ~store_failed
                        /\ event.threat_level >= ThreatLevel_HIGH} :
       \E block_failed \in {blocking /\ failing = "block_source"} :
       \E raised \in {log_failed \/ store_failed \/ block_failed} :
          /\ IF routed
             THEN DecisionRoute(txn, ml_score, NoId, 0)
             ELSE UNCHANGED <<ruleVars, policyVars, sessVars>>
          /\ IF call.op = "none"
             THEN UNCHANGED secVars
             ELSE SecFields(call.op, MWSource, call.args, call.r)
          /\ IF blocking /\ ~block_failed
             THEN /\ blocked_sources_table' =
                        store_block_source(blocked_sources_table, MWSource,
                                           event.threat_type, event.threat_level, TRUE)
                  /\ store_last' = [op |-> "block_source", source_id |-> MWSource,
                                    result |-> TRUE]
                  /\ store_calls' = store_calls + 1
             ELSE UNCHANGED storeVars
          /\ mw_last' =
                [path |-> path, method |-> method, header |-> header.name,
                 should_rate_limit |-> limited, checked |-> limited,
                 allowed |-> limited /\ ~rejected, processed |-> ~rejected,
                 failing |-> failing, raised |-> raised,
                 status_code |-> IF raised THEN 500 ELSE IF rejected THEN 429 ELSE 200,
                 decision_code |-> IF routed /\ ~raised THEN sess_last'.decision_code
                                   ELSE NoDecision,
                 route_decision |-> IF routed THEN sess_last'.decision_code
                                    ELSE NoDecision,
                 access_log |-> IF log_failed THEN <<>>
                                ELSE IF rejected THEN <<429>>
                                ELSE IF raised THEN <<200, 500>>
                                ELSE <<200>>]
    /\ UNCHANGED <<poolVars, rateVars, scorerVars>>

\* the transactions and model scores of the decision requests
MWTxns ==
    [user_id : {"u1"}, device_id : {"d1"}, amount : {10},
     timestamp : {0}, ip_address : {NoId}, merchant_id : {NoId}]
MWMlScores == {20, 95}

MWNext ==
    \E req \in MWRequests, header \in MWHeaders, failing \in {NoFailure} \cup StorageCalls :
       \E txn \in MWTxns, ml_score \in MWMlScores :
          security_monitoring_middleware(req.path, req.method, header, failing,
                                         txn, ml_score)

\* decision requests and health probes of one source, some of them reporting
\* a failed authentication, with the access log working or failing
GateNext ==
    \E path \in {DecisionPath, "/health"},
       header \in {NoHeader, [name |-> "X-Auth-Result", value |-> "failed"]},
       failing \in {NoFailure, "log_api_access"} :
       \E txn \in MWTxns :
          security_monitoring_middleware(path, IF path = DecisionPath THEN "POST" ELSE "GET",
                                         header, failing, txn, 20)

\* POST /v1/security/sources/{source_id}/reset: rate_limiter.reset_source and
\* security_engine.unblock_source (the audit entry it logs is not part of the
\* state)
ResetSourceEndpoint(source_id) ==
    /\ buckets' = [buckets EXCEPT ![source_id] = NoBucket]
    /\ blocked_until' = [blocked_until EXCEPT ![source_id] = NoTime]
    /\ violations' = [violations EXCEPT ![source_id] = <<>>]
    /\ source_tiers' = [source_tiers EXCEPT ![source_id] = NoTier]
    /\ rl_last' = RLResult("reset", source_id, TRUE, Unblocked)
    /\ seenViolations' = [seenViolations EXCEPT ![source_id] = <<>>]
    /\ seenBlockEnd' = [seenBlockEnd EXCEPT ![source_id] = NoTime]
    /\ blocked_sources' = sec_unblock_source(SecState, source_id).blocked
    /\ sec_last' = [op |-> "reset_source", source_id |-> source_id, t |-> sec_now,
                    args |-> NoArgs, event |-> NoEvent, detected |-> <<>>]
    /\ UNCHANGED <<now, rl_ticks, rl_calls>>
    /\ UNCHANGED <<sec_now, api_request_history, failed_auth_tracking, user_access_patterns,
                   security_events, auth_log, sec_ticks, sec_calls>>
    /\ UNCHANGED <<ruleVars, policyVars, sessVars, poolVars, storeVars, mwVars, rateVars,
                   scorerVars>>

\* requests pass the middleware, and an analyst resets a source
ResetNext ==
    \/ MWNext
    \/ \E src \in Sources : ResetSourceEndpoint(src)

(***************************************************************************)
(* BehavioralScorer (api/models/behavioral_scorer.py)                      *)
(***************************************************************************)
MaxScorerTicks == 2      \* clock advances per run of the scorer

\* USER_BASELINES["default"]
avg_transaction_amount == 2500
active_hours_start == 9
active_hours_end == 22
avg_transactions_per_session == 2

\* RISK_THRESHOLDS
velocity_normal_max == 3
velocity_time_window_min == 2
velocity_anomaly_count == 5
velocity_score_per_excess == 20
amount_deviation_multiplier == 3
amount_deviation_score == 30
beneficiary_score_per_new == 25
time_anomaly_score == 15
pattern_deviation_multiplier == 2
pattern_deviation_score == 20
MaxRiskScore == 100
SecondsPerMinute == 60

\* a signal's result: its score and its anomaly tags
Signal(score, anomalies) == [score |-> score, anomalies |-> anomalies]
NoSignal == Signal(0, <<>>)

\* f"{x:.0f}" of a number of minutes given in seconds: round half to even
RoundedMinutes(seconds) ==
    LET q == seconds \div SecondsPerMinute
        r == seconds % SecondsPerMinute
    IN IF 2 * r < SecondsPerMinute THEN q
       ELSE IF 2 * r > SecondsPerMinute THEN q + 1
       ELSE IF q % 2 = 0 THEN q ELSE q + 1

\* get_session_age_minutes, in seconds: the clock is read at the call
get_session_age_seconds(session, clock) == clock - session.login_time

\* signal 1: age_seconds / 60.0 < window is compared in seconds
_check_transaction_velocity(session, clock) ==
    LET count == session.transaction_count
        age == get_session_age_seconds(session, clock)
    IN IF count >= velocity_anomaly_count
          /\ age < velocity_time_window_min * SecondsPerMinute
       THEN Signal((count - velocity_normal_max) * velocity_score_per_excess,
                   <<[type |-> "velocity_spike", txns |-> count,
                      min |-> RoundedMinutes(age)]>>)
       ELSE NoSignal

\* signal 2: total_amount / transaction_count > baseline * multiplier is
\* compared without the division
_check_amount_deviation(session, transaction_data) ==
    LET current_amount == transaction_data.amount
        limit == avg_transaction_amount * amount_deviation_multiplier
        avg_over == IF session.transaction_count > 0
                    THEN session.total_amount > limit * session.transaction_count
                    ELSE current_amount > limit
    IN IF avg_over
       THEN Signal(amount_deviation_score, <<[type |-> "amount_anomaly", of |-> "avg"]>>)
       ELSE IF current_amount > limit
       THEN Signal(amount_deviation_score, <<[type |-> "amount_anomaly", of |-> "current"]>>)
       ELSE NoSignal

\* signal 3
_check_beneficiary_changes(session) ==
    LET new_count == session.beneficiaries_added IN
    IF new_count > 0
    THEN Signal(new_count * beneficiary_score_per_new,
                <<[type |-> "beneficiary_spike", new |-> new_count]>>)
    ELSE NoSignal

\* signal 4: the hour of the login time in UTC
_check_time_of_day(session) ==
    LET login_hour == HourOf(session.login_time)
        is_off_hours == IF active_hours_end > active_hours_start
                        THEN login_hour < active_hours_start \/ login_hour >= active_hours_end
                        ELSE active_hours_start <= login_hour /\ login_hour < active_hours_end
    IN IF is_off_hours
       THEN Signal(time_anomaly_score, <<[type |-> "time_anomaly", hour |-> login_hour]>>)
       ELSE NoSignal

\* signal 5
_check_transaction_pattern(session) ==
    LET count == session.transaction_count IN
    IF count > avg_transactions_per_session * pattern_deviation_multiplier
    THEN Signal(pattern_deviation_score,
                <<[type |-> "pattern_anomaly", txns |-> count]>>)
    ELSE NoSignal

\* the total without the clamp
Clamp_none(total_score) == total_score

\* "Clamp to [0, 100]"
Clamp(total_score) == Max(0, Min(MaxRiskScore, total_score))

\* BehavioralScorer.calculate_risk, the clock being what datetime.now returns
\* during the call: the RiskScore it returns, and the session after the call
calculate_risk(session, transaction_data, clock) ==
    LET signals ==
            <<[name |-> "TRANSACTION_VELOCITY",
               s |-> _check_transaction_velocity(session, clock)],
              [name |-> "AMOUNT_DEVIATION",
               s |-> _check_amount_deviation(session, transaction_data)],
              [name |-> "BENEFICIARY_CHANGES", s |-> _check_beneficiary_changes(session)],
              [name |-> "TIME_OF_DAY_ANOMALY", s |-> _check_time_of_day(session)],
              [name |-> "TRANSACTION_PATTERN", s |-> _check_transaction_pattern(session)]>>
        Triggered(x) == x.s.score > 0
        triggered == SelectSeq(signals, Triggered)
        Total[i \in 0..Len(triggered)] ==
            IF i = 0 THEN 0 ELSE Total[i - 1] + triggered[i].s.score
        Tags[i \in 0..Len(triggered)] ==
            IF i = 0 THEN <<>> ELSE Tags[i - 1] \o triggered[i].s.anomalies
    IN [score |-> Clamp(Total[Len(triggered)]),
        signals_triggered |-> [i \in 1..Len(triggered) |-> triggered[i].name],
        anomalies |-> Tags[Len(triggered)],
        details |-> [i \in 1..Len(signals) |-> signals[i].s.score],
        session |-> session]

\* the session snapshots and transaction contexts the scorer is called with
ScorerCounts == {0, 2, 5, 6, 1000}
ScorerTotals == {0, 5000, 50000}
ScorerBeneficiaries == {0, 1, 4, 50}
\* logins at 03:00 and at 14:30 of the first day
ScorerLogins == {10800, 52200}
ScorerAmounts == {0, 3000, 8000}
ScorerSessions ==
    [transaction_count : ScorerCounts, total_amount : ScorerTotals,
     beneficiaries_added : ScorerBeneficiaries, login_time : ScorerLogins]
ScorerTxns == [amount : ScorerAmounts]
\* the clock is one minute past the login and moves on by half a minute or a minute
ScorerLead == 60
ScorerDeltas == {30, 60}

ScorerInit ==
    \E session \in ScorerSessions, transaction_data \in ScorerTxns :
       /\ scorer_in = [session |-> session, transaction_data |-> transaction_data]
       /\ scorer_now = session.login_time + ScorerLead
       /\ scorer_last = NoRisk
       /\ scorer_ticks = 0

\* time passes between two calls
ScorerAdvance ==
    /\ scorer_ticks < MaxScorerTicks
    /\ scorer_ticks' = scorer_ticks + 1
    /\ \E d \in ScorerDeltas : scorer_now' = scorer_now + d
    /\ UNCHANGED <<scorer_in, scorer_last>>
    /\ UNCHANGED otherThanScorer

\* a call of calculate_risk with the session snapshot and the context
CalculateRisk ==
    /\ \E risk \in {calculate_risk(scorer_in.session, scorer_in.transaction_data,
                                   scorer_now)} :
          /\ scorer_last' = [op |-> "calculate_risk", risk |-> risk, t |-> scorer_now]
          /\ scorer_in' = [scorer_in EXCEPT !.session = risk.session]
    /\ UNCHANGED <<scorer_now, scorer_ticks>>
    /\ UNCHANGED otherThanScorer

ScorerNext ==
    \/ ScorerAdvance
    \/ CalculateRisk

(***************************************************************************)
(* Specifications                                                          *)
(***************************************************************************)
Init ==
    /\ RLInit
    /\ RulesInit
    /\ PolicyInit
    /\ SessInit
    /\ SecInit
    /\ PoolIdle

Next ==
    \/ RLNext
    \/ RulesNext
    \/ PolicyNext
    \/ SessionNext
    \/ SecNext

Spec == Init /\ [][Next]_vars

\* one specification per component: the other components stay at rest
InitRL ==
    /\ RLInit
    /\ RulesIdle
    /\ PolicyInit
    /\ SessInit
    /\ SecIdle
    /\ PoolIdle

InitRules ==
    /\ RLInit
    /\ RulesInit
    /\ PolicyInit
    /\ SessInit
    /\ SecIdle
    /\ PoolIdle

InitPolicy ==
    /\ RLInit
    /\ RulesIdle
    /\ PolicyInit
    /\ SessInit
    /\ SecIdle
    /\ PoolIdle

\* the decision route starts with one of its recorded rule histories
InitSession ==
    /\ RLInit
    /\ \E h \in SessHistories : RulesStart(h)
    /\ PolicyInit
    /\ SessInit
    /\ SecIdle
    /\ PoolIdle

\* the security engine starts with one of its recorded histories
InitSec ==
    /\ RLInit
    /\ RulesIdle
    /\ PolicyInit
    /\ SessInit
    /\ SecInit
    /\ PoolIdle

SpecRL == InitRL /\ [][RLNext]_vars
SpecRules == InitRules /\ [][RulesNext]_vars
\* blocked attempts against the rules engine
InitBlock ==
    /\ RLInit
    /\ BlockInit
    /\ PolicyInit
    /\ SessInit
    /\ SecIdle
    /\ PoolIdle
SpecBlock == InitBlock /\ [][BlockNext]_vars
SpecPolicy == InitPolicy /\ [][PolicyNext]_vars
SpecVerdict == InitPolicy /\ [][VerdictNext]_vars
SpecSession == InitSession /\ [][SessionNext]_vars
SpecSec == InitSec /\ [][SecNext]_vars

\* the authentication monitor starts with one of its recorded histories
InitAuth ==
    /\ RLInit
    /\ RulesIdle
    /\ PolicyInit
    /\ SessInit
    /\ AuthInit
    /\ PoolIdle

SpecAuth == InitAuth /\ [][AuthNext]_vars

\* the data access monitor starts with one of its recorded histories
InitData ==
    /\ RLInit
    /\ RulesIdle
    /\ PolicyInit
    /\ SessInit
    /\ DataInit
    /\ PoolIdle

SpecData == InitData /\ [][DataNext]_vars

\* concurrent check_rate_limit calls arrive at a bucket that is nearly empty
InitPool ==
    /\ PoolInit
    /\ RulesIdle
    /\ PolicyInit
    /\ SessInit
    /\ SecIdle

SpecPool == InitPool /\ [][PoolNext]_vars

\* the block list starts empty
InitStore ==
    /\ RLInit
    /\ RulesIdle
    /\ PolicyInit
    /\ SessInit
    /\ SecIdle
    /\ PoolIdle

SpecStore == InitStore /\ [][StoreNext]_vars

\* concurrent record_transaction calls arrive for a session that exists
InitSessPool ==
    /\ RLInit
    /\ RulesIdle
    /\ PolicyInit
    /\ SessPoolInit
    /\ SecIdle
    /\ RLPoolIdle
    /\ StoreInit
    /\ MWIdle
    /\ ScorerIdle

SpecSessPool == InitSessPool /\ [][SessPoolNext]_vars

\* requests arrive at the middleware from a source whose bucket is nearly
\* empty and whose failed authentications are recorded
InitMW ==
    /\ PoolInit
    /\ RulesIdle
    /\ PolicyInit
    /\ SessInit
    /\ AuthInit

SpecMW == InitMW /\ [][MWNext]_vars
SpecReset == InitMW /\ [][ResetNext]_vars
SpecGate == InitMW /\ [][GateNext]_vars

\* a client starts calling the limiter for a source on the free tier
InitRate ==
    /\ RateInit
    /\ RulesIdle
    /\ PolicyInit
    /\ SessInit
    /\ SecIdle
    /\ PoolIdle

SpecRate == InitRate /\ [][RateNext]_vars

\* the scorer is called for one session snapshot and one transaction context
InitScorer ==
    /\ RLInit
    /\ RulesIdle
    /\ PolicyInit
    /\ SessInit
    /\ SecIdle
    /\ RLPoolIdle
    /\ SessPoolIdle
    /\ StoreInit
    /\ MWIdle
    /\ ScorerInit

SpecScorer == InitScorer /\ [][ScorerNext]_vars

\* the three monitors start one call below their floors
InitReview ==
    /\ RLInit
    /\ RulesIdle
    /\ PolicyInit
    /\ SessInit
    /\ ReviewInit
    /\ PoolIdle

SpecReview == InitReview /\ [][ReviewNext]_vars
SpecBlockedSet == InitReview /\ [][BlockedSetNext]_vars

\* the rules engine again, started from one of its longer histories
InitVelocity ==
    /\ RLInit
    /\ VelocityInit
    /\ PolicyInit
    /\ SessInit
    /\ SecIdle
    /\ PoolIdle

\* ... with the deny lists left empty
VelocityNext == \E txn \in Transactions : Evaluate(txn)

SpecVelocity == InitVelocity /\ [][VelocityNext]_vars

(***************************************************************************)
(* Claims about the rate limiter (checked under SpecRL)                    *)
(***************************************************************************)

\* C1: after any sequence of check_rate_limit calls (any cost >= 1, any
\* non-negative elapsed time, allowed or rejected) every bucket holds
\* 0 <= tokens <= capacity.
C1_TokensWithinCapacity ==
    \A s \in Sources :
        buckets[s] /= NoBucket =>
            /\ 0 <= buckets[s].tokens
            /\ buckets[s].tokens <= buckets[s].capacity * TokenUnit

\* C1 witness: a rejected check after a partial refill left a bucket that is
\* neither empty nor full.
C1_Witness ==
    \E s \in Sources :
        /\ rl_last.op = "check" /\ rl_last.source = s /\ ~rl_last.allowed
        /\ buckets[s] /= NoBucket
        /\ 0 < buckets[s].tokens
        /\ buckets[s].tokens < buckets[s].capacity * TokenUnit
        /\ now > 0

C14_UnblockClearsViolations ==
    rl_last.op = "unblock" => violations[rl_last.source] = <<>>

\* C15: after unblock_source on a temporarily blocked source the source is no
\* longer blocked and has no bucket left, so that the next check starts from a
\* new bucket at the full burst capacity of its tier: that check is allowed
\* for every cost up to the capacity and leaves capacity - cost tokens.
C15_UnblockFreshStart ==
    LET s == rl_last.source
        capacity == tier_configs[TierOf(s)].burst_capacity
    IN /\ Unblocked => (blocked_until[s] = NoTime /\ buckets[s] = NoBucket)
       /\ (rl_last.op = "check" /\ rl_last.fresh /\ rl_last.cost <= capacity) =>
              /\ rl_last.allowed
              /\ buckets[s].capacity = capacity
              /\ buckets[s].tokens = (capacity - rl_last.cost) * TokenUnit

\* a block was lifted, and the next check asked for the whole burst capacity
\* and got it
C15_Witness ==
    /\ rl_last.op = "check"
    /\ rl_last.fresh
    /\ rl_last.cost = tier_configs[TierOf(rl_last.source)].burst_capacity
    /\ rl_last.cost > 1
    /\ rl_last.allowed
    /\ buckets[rl_last.source].tokens = 0

\* a check_rate_limit step for a source that is blocked when it is made
BlockedCheck(s) ==
    /\ rl_calls' = rl_calls + 1
    /\ rl_last'.source = s
    /\ blocked_until[s] /= NoTime
    /\ now < blocked_until[s]

\* C16: while a source is temporarily blocked (now < blocked_until) every
\* check for it is rejected with reason rate_limit_block and leaves its bucket
\* (token count and last-refill time) and its violation list unchanged.
C16_BlockedCheckFrame ==
    [][\A s \in Sources :
          BlockedCheck(s) =>
             /\ ~rl_last'.allowed
             /\ rl_last'.reason = "rate_limit_block"
             /\ buckets'[s] = buckets[s]
             /\ violations'[s] = violations[s]]_vars

\* a check made later than the block began, while it holds, for a source
\* whose bucket could have paid for it after the refill
C16_Witness ==
    /\ rl_last.op = "check"
    /\ rl_last.path = "blocked"
    /\ buckets[rl_last.source] /= NoBucket
    /\ now > buckets[rl_last.source].last_refill
    /\ violations[rl_last.source] /= <<>>

(***************************************************************************)
(* Claims about the rules engine                                           *)
(***************************************************************************)
DenyCodes == {"denied_user", "denied_device", "denied_ip", "denied_merchant"}

InSeq(x, q) == \E i \in 1..Len(q) : q[i] = x

\* the transaction of the last evaluate call names an entry of a deny list
OnDenyList(txn) ==
    \/ txn.user_id \in denied_users
    \/ txn.device_id \in denied_devices
    \/ txn.ip_address \in denied_ips
    \/ txn.merchant_id \in denied_merchants

\* ... and that entry is a non-empty identifier
NonEmptyOnDenyList(txn) ==
    \/ Truthy(txn.user_id) /\ txn.user_id \in denied_users
    \/ Truthy(txn.device_id) /\ txn.device_id \in denied_devices
    \/ Truthy(txn.ip_address) /\ txn.ip_address \in denied_ips
    \/ Truthy(txn.merchant_id) /\ txn.merchant_id \in denied_merchants

OnlyDenyCodes(reasons) ==
    reasons /= <<>> /\ \A i \in 1..Len(reasons) : reasons[i] \in DenyCodes

\* C2 as stated: a transaction whose user, device, ip or merchant is on the
\* corresponding deny list is blocked with deny-list codes only, whatever its
\* amount, timestamp and the recorded history.
C2_DeniedAlwaysBlock ==
    (rule_last.op = "evaluate" /\ OnDenyList(rule_last.txn))
        => (rule_last.action = BLOCK /\ OnlyDenyCodes(rule_last.reasons))

\* C2, amended: a transaction with a non-empty user, device, ip or merchant
\* identifier that is on the corresponding deny list is blocked with deny-list
\* codes only, whatever its amount, timestamp and the recorded history.
C2_NonEmptyDeniedBlock ==
    (rule_last.op = "evaluate" /\ NonEmptyOnDenyList(rule_last.txn))
        => (rule_last.action = BLOCK /\ OnlyDenyCodes(rule_last.reasons))

\* a denied merchant alone, on a high-value transaction of a user with recorded
\* history, is blocked
C2_Witness ==
    /\ rule_last.op = "evaluate"
    /\ rule_last.txn.merchant_id \in denied_merchants
    /\ rule_last.txn.user_id \notin denied_users
    /\ rule_last.txn.device_id \notin denied_devices
    /\ rule_last.txn.ip_address \notin denied_ips
    /\ rule_last.txn.amount > high_value_amount
    /\ user_transaction_count[rule_last.txn.user_id] >= high_value_daily
    /\ rule_last.action = BLOCK
    /\ rule_last.reasons = <<"denied_merchant">>

\* the order of the action levels: Allow < StepUp < Review < Block
Level(a) == CASE a = ALLOW -> 0 [] a = STEP_UP -> 1 [] a = REVIEW -> 2 [] a = BLOCK -> 3

\* the level of the rule behind each reason code
ReasonLevel(code) ==
    IF code \in DenyCodes \cup {"velocity_user_1h", "velocity_user_1d", "velocity_device_1h"}
    THEN Level(BLOCK)
    ELSE IF code = "amount_first_txn_high" THEN Level(STEP_UP)
    ELSE Level(REVIEW)

MaxLevel(reasons) ==
    IF reasons = <<>> THEN Level(ALLOW)
    ELSE CHOOSE l \in 0..3 :
            /\ \E i \in 1..Len(reasons) : ReasonLevel(reasons[i]) = l
            /\ \A i \in 1..Len(reasons) : ReasonLevel(reasons[i]) <= l

\* C10 as stated: evaluate returns the highest level among the rules that
\* fired, so a fired hourly user or device cap gives Block, also when the
\* high-value cap fires on the same transaction.
C10_HighestLevelWins ==
    rule_last.op = "evaluate" =>
        /\ Level(rule_last.action) = MaxLevel(rule_last.reasons)
        /\ (InSeq("velocity_user_1h", rule_last.reasons)
              \/ InSeq("velocity_device_1h", rule_last.reasons))
            => rule_last.action = BLOCK

\* the evaluate calls before the last one
EarlierCalls == SubSeq(rule_log, 1, Len(rule_log) - 1)

\* how many transactions of a user were recorded before the last call with a
\* timestamp in the hours before t
RecordedBefore(user_id, t, hours) ==
    Cardinality({i \in 1..Len(EarlierCalls) :
                    /\ EarlierCalls[i].user_id = user_id
                    /\ EarlierCalls[i].tracked
                    /\ EarlierCalls[i].timestamp > t - hours * MinutesPerHour
                    /\ EarlierCalls[i].timestamp <= t})

\* C11 as stated: evaluate returns Block with reason velocity_user_1d whenever
\* at least user_daily transactions of the user were recorded with timestamps
\* in the 24 hours before the transaction's timestamp, also when fewer than
\* user_hourly of them lie in the last hour (transactions that hit a deny list
\* left aside).
C11_DailyCapBlocks ==
    (/\ rule_last.op = "evaluate"
     /\ ~NonEmptyOnDenyList(rule_last.txn)
     /\ RecordedBefore(rule_last.txn.user_id, rule_last.txn.timestamp, 24) >= user_daily)
        => (rule_last.action = BLOCK /\ InSeq("velocity_user_1d", rule_last.reasons))

\* the timestamps of all evaluate calls made for a user
CallTimes(user_id) ==
    {rule_log[i].timestamp : i \in {j \in 1..Len(rule_log) : rule_log[j].user_id = user_id}}

CallsOf(user_id) == Cardinality({j \in 1..Len(rule_log) : rule_log[j].user_id = user_id})

\* C12 as stated: when user_hourly + 1 transactions of a previously unseen user
\* are evaluated with timestamps inside one hour, the last evaluation returns
\* Block with reasons containing velocity_user_1h (transactions that hit a
\* deny list left aside).
C12_EleventhBlocked ==
    (/\ rule_last.op = "evaluate"
     /\ ~NonEmptyOnDenyList(rule_last.txn)
     /\ CallsOf(rule_last.txn.user_id) = user_hourly + 1
     /\ \A t1, t2 \in CallTimes(rule_last.txn.user_id) : t1 - t2 < MinutesPerHour)
        => (rule_last.action = BLOCK /\ InSeq("velocity_user_1h", rule_last.reasons))

\* the last evaluate call of the history
LastCall == rule_log[Len(rule_log)]

\* q can be had from r by dropping entries
RECURSIVE IsSubSeq(_, _)
IsSubSeq(q, r) ==
    IF q = <<>> THEN TRUE
    ELSE IF r = <<>> THEN FALSE
    ELSE IF Head(q) = Head(r) THEN IsSubSeq(Tail(q), Tail(r))
    ELSE IsSubSeq(q, Tail(r))

\* every window read by the last evaluate call holds only timestamps inside
\* its horizon, the count returned is the length of the window, and the
\* window now stored for the key still has nothing at or before the horizon
WindowsPruned ==
    rule_last.op = "evaluate" =>
        \A i \in 1..Len(LastCall.reads) :
            LET rd == LastCall.reads[i]
                horizon == rule_last.txn.timestamp - rd.hours * MinutesPerHour
            IN /\ \A j \in 1..Len(rd.window) : rd.window[j] > horizon
               /\ rd.count = Len(rd.window)
               /\ \A j \in 1..Len(velocity_tracker[rd.key]) :
                     velocity_tracker[rd.key][j] > horizon

\* a step leaves in each window only entries it held before, and at most the
\* evaluated transaction's own timestamp at its end
NeverReadded ==
    \A key \in VelocityKeys :
        \/ IsSubSeq(velocity_tracker'[key], velocity_tracker[key])
        \/ /\ rule_last'.op = "evaluate"
           /\ velocity_tracker'[key] /= <<>>
           /\ velocity_tracker'[key][Len(velocity_tracker'[key])] = rule_last'.txn.timestamp
           /\ IsSubSeq(SubSeq(velocity_tracker'[key], 1, Len(velocity_tracker'[key]) - 1),
                       velocity_tracker[key])

\* C13: whenever a velocity window is read at transaction time t with horizon
\* h hours, no timestamp <= t - h is counted or left in the window for that
\* key, the count returned equals the number of retained entries, and an entry
\* once pruned is never re-added.
C13_WindowWithinHorizon == []WindowsPruned /\ [][NeverReadded]_vars

\* an evaluate call whose one-hour read of the user window dropped entries
\* recorded in the last 24 hours and kept some
C13_Witness ==
    /\ rule_last.op = "evaluate"
    /\ \E i \in 1..Len(LastCall.reads) :
          /\ LastCall.reads[i].key = <<"user", rule_last.txn.user_id>>
          /\ LastCall.reads[i].hours = 1
          /\ LastCall.reads[i].count > 0
          /\ LastCall.reads[i].count
                < RecordedBefore(rule_last.txn.user_id, rule_last.txn.timestamp, 24)

(***************************************************************************)
(* Claims about the policy engine                                          *)
(***************************************************************************)
\* C3: for the thresholds in force, whatever update_threshold made of them,
\* and any two scores s1 <= s2 of a non-blocked rule verdict, decide gives
\* decision_code(s1) <= decision_code(s2).
C3_DecideMonotonic ==
    \A s1 \in MlScores, s2 \in MlScores :
        s1 <= s2 =>
            decide(thresholds, FALSE, s1).decision_code
                <= decide(thresholds, FALSE, s2).decision_code

\* decide has answered Allow under thresholds that update_threshold left out
\* of ascending order, for a score that is not below the monitor threshold
C3_Witness ==
    /\ policy_last.op = "decide"
    /\ ~policy_last.blocked
    /\ thresholds["allow"] > thresholds["monitor"]
    /\ thresholds["stepup"] > thresholds["review"]
    /\ policy_last.ml_score >= thresholds["monitor"]
    /\ policy_last.decision_code = 0

(***************************************************************************)
(* Claims about session monitoring                                         *)
(***************************************************************************)
\* C5 as stated: a session that the store has held as terminated is still
\* stored as terminated after every later request, through either route.
C5_StaysTerminated ==
    \A sid \in SessionIds : everTerminated[sid] => session_store[sid].is_terminated

\* the last request was a decision request whose session stage ran
SessionStageRan ==
    /\ sess_last.op = "decision"
    /\ Truthy(sess_last.session_id)
    /\ ~sess_last.rules_blocked

\* C6 as stated: a decision request for a session that an earlier request left
\* stored as terminated, and that the rules stage does not block, returns
\* decision_code 4 with score 1.0 and session_risk.is_terminated true, however
\* soon after the termination it arrives.
C6_TerminatedSessionBlocks ==
    (SessionStageRan /\ sess_last.stored_terminated_before) =>
        /\ sess_last.decision_code = DecisionCode_BLOCK
        /\ sess_last.score = ScoreUnit
        /\ sess_last.session_risk.is_terminated

C17_RulesBlockShortCircuits ==
    (sess_last.op = "decision" /\ rule_last.action = BLOCK) =>
        /\ sess_last.decision_code = DecisionCode_BLOCK
        /\ sess_last.score = ScoreUnit
        /\ sess_last.reasons = rule_last.reasons
        /\ sess_last.rule_flags = rule_last.reasons
        /\ ~sess_last.ml_invoked
        /\ sess_last.ml_score = NoScore

\* a decision request with a session id was blocked by the hourly device cap
C17_Witness ==
    /\ sess_last.op = "decision"
    /\ rule_last.action = BLOCK
    /\ Truthy(sess_last.session_id)
    /\ sess_last.reasons = <<"velocity_device_1h">>
    /\ ~sess_last.ml_invoked

\* the step is a terminate request for a session the store holds as terminated
TerminateAgain(sid) ==
    /\ session_store[sid].is_terminated
    /\ sess_last'.op = "terminate"
    /\ sess_last'.session_id = sid

\* C18 as stated: terminate_session on a session that is already terminated
\* leaves the stored termination state and termination_reason as the first
\* termination set them and appends no second session_terminated event.
C18_TerminateIdempotent ==
    [][\A sid \in SessionIds :
          TerminateAgain(sid) =>
              /\ session_store'[sid].is_terminated
              /\ session_store'[sid].termination_reason = session_store[sid].termination_reason
              /\ session_events'[sid] = session_events[sid]]_vars

(***************************************************************************)
(* Claims about the security engine (checked under SpecSec)                *)
(***************************************************************************)
MonitorOps == {"monitor_api_request", "monitor_authentication", "monitor_data_access"}

\* C8: after any call to monitor_api_request, monitor_authentication or
\* monitor_data_access that returns an event of threat level High or above,
\* the source of that event is in the blocked set.
C8_HighEventBlocks ==
    (sec_last.op \in MonitorOps /\ sec_last.event.threat_level >= ThreatLevel_HIGH)
        => sec_last.source_id \in blocked_sources

\* C9: whenever the number of requests of a source in the trailing 60 seconds
\* reaches the critical floor, monitor_api_request returns an ApiAbuse event of
\* level Critical and the source is in the blocked set afterwards.
C9_CriticalRateBlocks ==
    (/\ sec_last.op = "monitor_api_request"
     /\ CountAfter(api_request_history[sec_last.source_id], sec_last.t - MinuteWindow)
            >= api_requests_per_minute_critical)
        => /\ sec_last.event.threat_type = API_ABUSE
           /\ sec_last.event.threat_level = ThreatLevel_CRITICAL
           /\ sec_last.source_id \in blocked_sources

\* the events the heuristics of monitor_api_request fire for the last call,
\* evaluated on the engine as the call left it
Fired ==
    LET detected == DetectedEvents([history |-> api_request_history',
                                    patterns |-> user_access_patterns'],
                                   sec_last'.source_id, sec_last'.args.endpoint,
                                   sec_last'.args.success, sec_last'.args.simulate_off_hours,
                                   sec_last'.t)
    IN {detected[i] : i \in 1..Len(detected)}

\* ev is an event of the set with the highest threat level
Highest(ev, events) ==
    ev \in events /\ \A other \in events : other.threat_level <= ev.threat_level

ApiRequestStep ==
    sec_calls' = sec_calls + 1 /\ sec_last'.op = "monitor_api_request"

\* C19: monitor_api_request records the request in the source's history and
\* access pattern before the heuristics run, and returns at most one event:
\* the fired non-ApiAbuse event of highest level if there is one (even when an
\* ApiAbuse event of higher level fired), otherwise the fired ApiAbuse event
\* of highest level; only the returned event is stored and considered for
\* the automatic block.
C19_SpecificThreatFirst ==
    [][ApiRequestStep =>
         LET s == sec_last'.source_id
             event == sec_last'.event
             specific == {ev \in Fired : ev.threat_type /= API_ABUSE}
         IN /\ api_request_history'[s] =
                   AppendMaxlen(api_request_history[s],
                                [timestamp |-> sec_now, success |-> sec_last'.args.success],
                                ApiHistoryMaxlen)
            /\ user_access_patterns'[s].endpoints[sec_last'.args.endpoint] =
                   user_access_patterns[s].endpoints[sec_last'.args.endpoint] + 1
            /\ IF specific /= {} THEN Highest(event, specific)
               ELSE IF Fired /= {} THEN Highest(event, Fired)
               ELSE event = NoEvent
            /\ security_events' = IF event = NoEvent THEN security_events
                                  ELSE StoreEvent(security_events)
            /\ blocked_sources' =
                   IF event /= NoEvent /\ event.threat_level >= ThreatLevel_HIGH
                   THEN blocked_sources \cup {s} ELSE blocked_sources]_vars

\* a call in which a Critical ApiAbuse event fired returned the Medium
\* UnusualAccess event, stored one event and left the source unblocked
C19_Witness ==
    /\ sec_last.op = "monitor_api_request"
    /\ sec_last.event = SecurityEvent(UNUSUAL_ACCESS, ThreatLevel_MEDIUM, TRUE)
    /\ _check_request_rate(api_request_history[sec_last.source_id], sec_last.t)
           = SecurityEvent(API_ABUSE, ThreatLevel_CRITICAL, TRUE)
    /\ sec_last.source_id \notin blocked_sources
    /\ security_events > 0

\* C22 as stated: for each source, the first and the second monitor_api_request
\* to an endpoint matching a sensitive pattern each yield a High
\* PrivilegeEscalation detection, and from the third access to that endpoint
\* on the unusual-endpoint check does not fire.
C22_FirstTwoSensitiveDetected ==
    (sec_last.op = "monitor_api_request" /\ sec_last.args.endpoint \in SensitiveEndpoints) =>
        LET accesses == user_access_patterns[sec_last.source_id].endpoints[sec_last.args.endpoint]
            detection == SecurityEvent(PRIVILEGE_ESCALATION, ThreatLevel_HIGH, TRUE)
        IN (\E i \in 1..Len(sec_last.detected) : sec_last.detected[i] = detection)
              <=> accesses <= 2

(***************************************************************************)
(* Claims about the authentication monitor (checked under SpecAuth)        *)
(***************************************************************************)
\* the attempts of the source of the last call since its last success
SinceLastSuccess ==
    LET log == auth_log[sec_last.source_id]
        successes == {i \in 1..Len(log) : log[i].success}
        last_success == IF successes = {} THEN 0
                        ELSE CHOOSE i \in successes : \A j \in successes : j <= i
    IN {i \in (last_success + 1)..Len(log) : ~log[i].success}

\* how many of them lie inside the window that ends at the last call
FailuresInWindow ==
    LET log == auth_log[sec_last.source_id] IN
    Cardinality({i \in SinceLastSuccess :
                    sec_last.t - log[i].t <= failed_auth_window_seconds})

\* C20: monitor_authentication returns an event exactly when the call is a
\* failure and the failures of the source inside the window since its last
\* success, this one included, number at least the warning floor (5); the
\* event is Critical and the source is blocked when they number at least the
\* critical floor (10), otherwise High; a success empties the window and
\* returns no event, so the next failure counts as the first.
C20_BruteForceFloors ==
    sec_last.op = "monitor_authentication" =>
        LET s == sec_last.source_id
            event == sec_last.event
            failure == ~sec_last.args.success
        IN /\ (event /= NoEvent) <=>
                  (failure /\ FailuresInWindow >= failed_auth_attempts_warning)
           /\ event /= NoEvent =>
                  /\ event.threat_type = BRUTE_FORCE
                  /\ event.threat_level =
                        IF FailuresInWindow >= failed_auth_attempts_critical
                        THEN ThreatLevel_CRITICAL ELSE ThreatLevel_HIGH
                  /\ event.threat_level = ThreatLevel_CRITICAL => s \in blocked_sources
           /\ failed_auth_tracking[s] =
                  IF failure
                  THEN [i \in 1..FailuresInWindow |-> auth_log[s][Len(auth_log[s]) - FailuresInWindow + i].t]
                  ELSE <<>>

\* the tenth failure inside the window returned a Critical event and blocked
\* the source
C20_Witness ==
    /\ sec_last.op = "monitor_authentication"
    /\ ~sec_last.args.success
    /\ FailuresInWindow = failed_auth_attempts_critical
    /\ sec_last.event = SecurityEvent(BRUTE_FORCE, ThreatLevel_CRITICAL, TRUE)
    /\ sec_last.source_id \in blocked_sources

(***************************************************************************)
(* Claims about the data access monitor (checked under SpecData)           *)
(***************************************************************************)
DataAccessStep ==
    sec_calls' = sec_calls + 1 /\ sec_last'.op = "monitor_data_access"

\* C21 as stated: once at least 5 accesses are recorded for a (source,
\* data_type) pair, a further access whose record_count exceeds 3 times the
\* mean volume of the accesses recorded before it returns a DataExfiltration
\* event, Critical if the data is flagged sensitive and High otherwise; with
\* fewer than 5 recorded accesses no event is returned.
C21_ThreeTimesMeanBefore ==
    [][DataAccessStep =>
         LET before == user_access_patterns[sec_last'.source_id].data[sec_last'.args.data_type]
             record_count == sec_last'.args.record_count
         IN /\ (/\ before.count >= DataHistoryMin
                 /\ record_count * before.count
                       > unusual_data_volume_multiplier * before.total) =>
                   sec_last'.event =
                      SecurityEvent(DATA_EXFILTRATION,
                                    IF sec_last'.args.sensitive THEN ThreatLevel_CRITICAL
                                    ELSE ThreatLevel_HIGH, TRUE)
            /\ before.count < DataHistoryMin => sec_last'.event = NoEvent]_vars

(***************************************************************************)
(* Claims about requests running concurrently                              *)
(***************************************************************************)
\* tokens granted to the calls of the pool that returned True
PoolGranted ==
    LET granted == [w \in PoolWorkers |->
                       IF rl_pool.frames[w].pc = "done" /\ rl_pool.frames[w].allowed
                       THEN rl_pool.frames[w].cost ELSE 0]
    IN SumOver(granted, PoolWorkers)

\* C23 as stated: check_rate_limit calls of one source that run concurrently
\* on a worker pool behave as if executed one after another: the bucket keeps
\* 0 <= tokens <= capacity, and the calls that succeed never take more tokens
\* than the bucket held (two calls never both succeed on tokens for one).
C23_ConcurrentChecksSerial ==
    /\ buckets[PoolSource].tokens >= 0
    /\ buckets[PoolSource].tokens <= buckets[PoolSource].capacity * TokenUnit
    /\ PoolGranted * TokenUnit <= rl_pool.offered

\* C24 as stated: for any interleaving of concurrent record_transaction calls
\* on one session, once all have completed the stored transaction_count
\* equals the number of recorded transactions and total_amount equals the sum
\* of their amounts: no update is lost.
C24_NoLostUpdate ==
    (\A w \in PoolWorkers : sess_pool.frames[w].pc \in {"idle", "done"}) =>
        /\ session_store[PoolSession].transaction_count = Len(sess_pool.recorded)
        /\ session_store[PoolSession].total_amount = SumSeq(sess_pool.recorded)

(***************************************************************************)
(* Claims about the block list of the store (checked under SpecStore)      *)
(***************************************************************************)
\* at most one row per source, and a source just blocked has its row active
OneRowPerSource ==
    /\ \A src \in StoreSources : Cardinality(RowsOf(blocked_sources_table, src)) <= 1
    /\ store_last.op = "block_source" =>
           \E i \in RowsOf(blocked_sources_table, store_last.source_id) :
               ~blocked_sources_table[i].unblocked
    /\ \A src \in StoreSources :
           is_source_blocked(blocked_sources_table, src) <=>
               \E i \in 1..Len(blocked_sources_table) :
                   /\ blocked_sources_table[i].source_id = src
                   /\ ~blocked_sources_table[i].unblocked

\* block_source on a source with a row adds no row, and unblock_source returns
\* true exactly when an active row of the source was there to deactivate
StoreStep ==
    store_calls' = store_calls + 1 =>
        LET src == store_last'.source_id
            before == RowsOf(blocked_sources_table, src)
            active == \E i \in before : ~blocked_sources_table[i].unblocked
        IN /\ (store_last'.op = "block_source" /\ before /= {}) =>
                  Len(blocked_sources_table') = Len(blocked_sources_table)
           /\ store_last'.op = "unblock_source" =>
                  /\ store_last'.result <=> active
                  /\ ~is_source_blocked(blocked_sources_table', src)

\* C30: the block-list store holds at most one record per source after any
\* sequence of block_source and unblock_source calls: blocking a source that
\* already has a record (active or unblocked) turns that record active again
\* instead of adding another, is_source_blocked is true exactly when that record
\* is active, and unblock_source returns true only when it deactivates an
\* active record.
C30_OneRecordPerSource == []OneRowPerSource /\ [][StoreStep]_vars

\* a source was blocked and unblocked, and a second unblock_source found its
\* only row already inactive and returned false
C30_Witness ==
    /\ store_last.op = "unblock_source"
    /\ ~store_last.result
    /\ Cardinality(RowsOf(blocked_sources_table, store_last.source_id)) = 1
    /\ ~is_source_blocked(blocked_sources_table, store_last.source_id)

(***************************************************************************)
(* C25: a decision request whose storage calls fail is still answered with *)
(* the decision that rules, model and policy computed.                     *)
(***************************************************************************)
\* C25: whenever the decision route has computed a decision for the request,
\* the middleware answers with that decision and raises nothing, whichever
\* storage call fails
C25_DecisionSurvivesStorageFailure ==
    mw_last.route_decision /= NoDecision
        => /\ ~mw_last.raised
           /\ mw_last.decision_code = mw_last.route_decision

(***************************************************************************)
(* C26: every request to a path that is not exempt goes through the rate   *)
(* limiter first, whatever headers it carries.                             *)
(***************************************************************************)
Exempt(path, method) == path \in bypass_paths \/ is_security_get(path, method)

\* C26: with the storage working, a request to a path that is not exempt has
\* been submitted to check_rate_limit, and when the check rejects it the
\* route has not run and the answer is 429
C26_NonExemptAlwaysChecked ==
    (/\ mw_last.path /= "none"
     /\ mw_last.failing = NoFailure
     /\ ~Exempt(mw_last.path, mw_last.method))
        => /\ mw_last.checked
           /\ ~mw_last.allowed => (~mw_last.processed /\ mw_last.status_code = 429)

(***************************************************************************)
(* C27: the checks of cost 1 allowed to a source in any interval of T      *)
(* seconds number at most burst_capacity + T * requests_per_minute / 60.   *)
(***************************************************************************)
\* C27: for a source whose tier stays the same and that is neither reset nor
\* unblocked, any k allowed checks of cost 1 lying T seconds apart satisfy
\* k <= burst_capacity + T * requests_per_minute / 60 (compared in sixtieths);
\* and 25 checks of a free-tier source made at one instant are not all allowed
C27_RateBound ==
    LET config == tier_configs[RateTier] IN
    /\ \A i \in 1..Len(rate_log) : \A j \in i..Len(rate_log) :
          (j - i + 1) * TokenUnit
             <= config.burst_capacity * TokenUnit
                + (rate_log[j] - rate_log[i]) * config.requests_per_minute
    /\ (rl_calls >= 25 /\ rl_ticks = 0) => Len(rate_log) < 25

\* C27 witness: the client has made its 25 checks, some before and some after
\* the clock moved on, more than a burst of them were allowed, and the last
\* one was rejected
C27_Witness ==
    /\ rl_calls = MaxRateCalls
    /\ rl_ticks > 0
    /\ Len(rate_log) > tier_configs[RateTier].burst_capacity
    /\ rl_last.op = "check" /\ ~rl_last.allowed

(***************************************************************************)
(* C28: calculate_risk returns a total score within [0, 100].              *)
(***************************************************************************)
\* C28: whatever the session snapshot and the transaction context, however
\* many transactions or new beneficiaries the session has, the score that
\* calculate_risk returns lies between 0 and 100
C28_ScoreWithinBounds ==
    scorer_last.op = "calculate_risk"
        => 0 <= scorer_last.risk.score /\ scorer_last.risk.score <= MaxRiskScore

\* C28 witness: the signals of a call add up to more than 100 and the score
\* returned is 100
C28_Witness ==
    /\ scorer_last.op = "calculate_risk"
    /\ SumSeq(scorer_last.risk.details) > MaxRiskScore
    /\ scorer_last.risk.score = MaxRiskScore

(***************************************************************************)
(* C29: calculate_risk is a pure function of the session snapshot and the  *)
(* transaction context.                                                    *)
(***************************************************************************)
\* C29: a call of calculate_risk leaves the session as it was, and a call
\* that follows another call with the same session snapshot and transaction
\* context returns the same score, signals and anomaly tags
C29_PureFunction ==
    [][(scorer_last'.op = "calculate_risk" /\ scorer_last' /= scorer_last)
          => /\ scorer_in' = scorer_in
             /\ scorer_last.op = "calculate_risk"
                   => scorer_last'.risk = scorer_last.risk]_vars

(***************************************************************************)
(* C31: a critical event always requires review.                           *)
(***************************************************************************)
\* the events the last monitor call created: those its checks yielded and
\* the one it returned
CreatedEvents ==
    {sec_last.detected[i] : i \in 1..Len(sec_last.detected)}
        \cup (IF sec_last.event = NoEvent THEN {} ELSE {sec_last.event})

\* C31: every event that monitor_api_request, monitor_authentication or
\* monitor_data_access creates with threat level critical has
\* requires_review = true
C31_CriticalRequiresReview ==
    \A ev \in CreatedEvents :
        ev.threat_level = ThreatLevel_CRITICAL => ev.requires_review

\* C31 witness: a failed authentication has just returned a critical event
C31_Witness ==
    /\ sec_last.op = "monitor_authentication"
    /\ sec_last.event /= NoEvent
    /\ sec_last.event.threat_level = ThreatLevel_CRITICAL
    /\ sec_last.event.requires_review

(***************************************************************************)
(* C32: the verdict for a transaction never counts that transaction.       *)
(***************************************************************************)
\* the earlier calls that recorded a transaction under a velocity key
RecordedUnder(key) ==
    {i \in 1..Len(EarlierCalls) :
        /\ EarlierCalls[i].tracked
        /\ CASE key[1] = "user" -> EarlierCalls[i].user_id = key[2]
             [] key[1] = "device" -> EarlierCalls[i].device_id = key[2]
             [] OTHER -> /\ EarlierCalls[i].user_id = key[2]
                         /\ EarlierCalls[i].amount > high_value_amount}

\* the amounts of a user that earlier calls recorded, the last 30 of them
RecordedAmounts(user_id) ==
    LET Mine(c) == c.tracked /\ c.user_id = user_id
        mine == SelectSeq(EarlierCalls, Mine)
        amounts == [i \in 1..Len(mine) |-> mine[i].amount]
    IN IF Len(amounts) > MaxAmountHistory
       THEN SubSeq(amounts, Len(amounts) - MaxAmountHistory + 1, Len(amounts))
       ELSE amounts

\* C32: each velocity count that the last evaluate call read is at most the
\* number of transactions that earlier calls recorded under the key inside
\* the horizon; and when the call ran all its stages, it reports a high first
\* transaction exactly when no earlier call recorded one for the user, and an
\* unusual amount exactly when the amount exceeds three times the mean of the
\* amounts that earlier calls recorded
C32_VerdictExcludesSelf ==
    (rule_last.op = "evaluate" /\ Len(rule_log) > 0) =>
        LET call == LastCall
            txn == rule_last.txn
            prior == RecordedAmounts(txn.user_id)
        IN /\ \A k \in 1..Len(call.reads) :
                 call.reads[k].count
                    <= Cardinality({i \in RecordedUnder(call.reads[k].key) :
                          EarlierCalls[i].timestamp
                             > txn.timestamp - call.reads[k].hours * MinutesPerHour})
           /\ call.tracked =>
                 /\ InSeq("amount_first_txn_high", rule_last.reasons)
                      <=> (prior = <<>> /\ txn.amount > first_txn_step_up)
                 /\ InSeq("amount_unusual", rule_last.reasons)
                      <=> (/\ prior /= <<>>
                           /\ txn.amount * Len(prior)
                                > SumSeq(prior) * review_amount_multiplier)

\* C32 witness: the first transaction of a user is high and is reported as a
\* high first transaction, with velocity counts of zero, and is then recorded
C32_Witness ==
    /\ rule_last.op = "evaluate"
    /\ Len(rule_log) = 1
    /\ LastCall.tracked
    /\ InSeq("amount_first_txn_high", rule_last.reasons)
    /\ \A k \in 1..Len(LastCall.reads) : LastCall.reads[k].count = 0
    /\ user_transaction_count[rule_last.txn.user_id] = 1

(***************************************************************************)
(* C33: a temporary block of the rate limiter ends by itself.              *)
(***************************************************************************)
\* the step is a check_rate_limit call of source s
IsCheckOf(s) == rl_calls' = rl_calls + 1 /\ rl_last'.source = s

\* a check before blocked_until is rejected and changes nothing of the source
RejectedWhileBlocked(s) ==
    (blocked_until[s] /= NoTime /\ now < blocked_until[s]) =>
        /\ ~rl_last'.allowed
        /\ rl_last'.reason = "rate_limit_block"
        /\ buckets'[s] = buckets[s]
        /\ violations'[s] = violations[s]
        /\ blocked_until'[s] = blocked_until[s]

\* a check at or after blocked_until is decided by the bucket, and leaves a
\* block behind only if it is one it has set itself
DecidedByBucket(s) ==
    (blocked_until[s] /= NoTime /\ now >= blocked_until[s]) =>
        LET config == tier_configs[TierOf(s)]
            bucket == IF buckets[s] = NoBucket THEN NewBucket(config, now)
                      ELSE buckets[s]
        IN /\ rl_last'.allowed = consume(bucket, rl_last'.cost, now)[2]
           /\ blocked_until'[s] /= NoTime =>
                 (~rl_last'.allowed /\ blocked_until'[s]
                                          = now + config.block_duration_seconds)

\* the expired block of s lasted at least the violation window
LongBlock(s) ==
    /\ violations[s] /= <<>>
    /\ blocked_until[s] - violations[s][Len(violations[s])] >= ViolationWindow

\* the first check after the block is admitted when it asks for a burst at most
AdmittedAfterBlock(s) ==
    (/\ blocked_until[s] /= NoTime
     /\ now >= blocked_until[s]
     /\ rl_last'.cost <= tier_configs[TierOf(s)].burst_capacity) => rl_last'.allowed

\* a check that sets a block counts three violations or more, none of them
\* from before the end of the block before
FreshViolations(s) ==
    (blocked_until'[s] /= NoTime /\ ~(blocked_until[s] /= NoTime /\ now < blocked_until[s])) =>
        /\ Len(violations'[s]) >= BlockThreshold
        /\ seenBlockEnd[s] /= NoTime =>
              \A i \in 1..Len(violations'[s]) : violations'[s][i] >= seenBlockEnd[s]

\* the same, for blocks that ended five minutes or more after the violations
\* that caused them
FreshAfterLongBlock(s) ==
    (blocked_until'[s] /= NoTime /\ ~(blocked_until[s] /= NoTime /\ now < blocked_until[s])) =>
        /\ Len(violations'[s]) >= BlockThreshold
        /\ seenBlockEnd[s] /= NoTime =>
              \A i \in 1..Len(violations'[s]) :
                  \/ violations'[s][i] >= seenBlockEnd[s]
                  \/ seenBlockEnd[s] - violations'[s][i] < ViolationWindow

\* C33 as stated: every check before blocked_until is rejected; the first
\* check at or after it is decided by the bucket and is admitted when its cost
\* is at most the capacity; a new block takes three violations recorded after
\* the block before had ended
C33_BlockEndsByItself ==
    [][\A s \in Sources : IsCheckOf(s) =>
          /\ RejectedWhileBlocked(s)
          /\ DecidedByBucket(s)
          /\ AdmittedAfterBlock(s)
          /\ FreshViolations(s)]_vars

\* C33, amended: the same for blocks that last five minutes or more (every
\* tier but "unlimited", whose block_duration_seconds is 0): after such a
\* block the first check of cost at most the capacity is admitted, and no
\* violation from before the block counts towards the next one
C33_LongBlockEndsByItself ==
    [][\A s \in Sources : IsCheckOf(s) =>
          /\ RejectedWhileBlocked(s)
          /\ DecidedByBucket(s)
          /\ LongBlock(s) => AdmittedAfterBlock(s)
          /\ FreshAfterLongBlock(s)]_vars

\* C33 witness: a source with three violations was blocked for five minutes
\* or more, and its check at or after the end of the block is admitted and
\* leaves no block
C33_Witness ==
    \E s \in Sources :
        /\ rl_last.op = "check" /\ rl_last.source = s /\ rl_last.allowed
        /\ Len(violations[s]) >= BlockThreshold
        /\ seenBlockEnd[s] /= NoTime
        /\ now >= seenBlockEnd[s]
        /\ seenBlockEnd[s] - violations[s][Len(violations[s])] >= ViolationWindow
        /\ blocked_until[s] = NoTime

(***************************************************************************)
(* C34: what the reset endpoint clears.                                    *)
(***************************************************************************)
\* the step is a completed reset of source s
IsResetOf(s) ==
    /\ sec_last'.op = "reset_source"
    /\ sec_last'.source_id = s
    /\ mw_requests' = mw_requests

\* C34: after the reset endpoint has completed for a source, the source is
\* not blocked in the rate limiter and has no recorded violations, it is not
\* in the detector's blocked set, and the block list of the store does not
\* list it as blocked
C34_ResetClearsAllBlocks ==
    [][\A s \in Sources : IsResetOf(s) =>
          /\ blocked_until'[s] = NoTime
          /\ violations'[s] = <<>>
          /\ s \notin blocked_sources'
          /\ ~is_source_blocked(blocked_sources_table', s)]_vars

(***************************************************************************)
(* C35: an evaluation that returns Block records nothing.                  *)
(***************************************************************************)
\* the step is an evaluate call
IsEvaluate == rule_evals' = rule_evals + 1

\* the transactions that calls of the log recorded under a key after a cutoff
RecordedSince(log, kind, id, cutoff) ==
    Cardinality({i \in 1..Len(log) :
        /\ log[i].tracked
        /\ IF kind = "user" THEN log[i].user_id = id ELSE log[i].device_id = id
        /\ log[i].timestamp > cutoff})

\* no velocity cap is reached by the transactions recorded before the call
BelowCaps(txn) ==
    /\ RecordedSince(rule_log, "user", txn.user_id, txn.timestamp - MinutesPerHour)
          < user_hourly
    /\ RecordedSince(rule_log, "user", txn.user_id, txn.timestamp - 24 * MinutesPerHour)
          < user_daily
    /\ RecordedSince(rule_log, "device", txn.device_id, txn.timestamp - MinutesPerHour)
          < device_hourly

\* C35: an evaluate call that returns Block appends no timestamp to any
\* velocity window and leaves user_transaction_count and user_amounts as they
\* were; and a call for a transaction that is on no deny list is not blocked
\* when the transactions recorded by earlier calls that are still inside the
\* windows are below the caps, however many attempts were blocked in between
C35_BlockRecordsNothing ==
    [][IsEvaluate =>
          /\ rule_last'.action = BLOCK =>
                /\ user_transaction_count' = user_transaction_count
                /\ user_amounts' = user_amounts
                /\ \A k \in VelocityKeys :
                      IsSubSeq(velocity_tracker'[k], velocity_tracker[k])
          /\ (/\ rule_last'.txn.user_id \notin denied_users
              /\ rule_last'.txn.device_id \notin denied_devices
              /\ BelowCaps(rule_last'.txn)) => rule_last'.action /= BLOCK]_vars

\* C35 witness: after two attempts in a row that a velocity cap blocked, the
\* third, made when the recorded transactions have left the window, is
\* admitted and recorded
C35_Witness ==
    /\ rule_last.op = "evaluate"
    /\ Len(rule_log) = device_hourly + 3
    /\ ~rule_log[device_hourly + 1].tracked
    /\ ~rule_log[device_hourly + 2].tracked
    /\ rule_log[device_hourly + 1].reads /= <<>>
    /\ rule_log[device_hourly + 2].reads /= <<>>
    /\ LastCall.tracked
    /\ LastCall.device_id = "d1"
    /\ rule_last.action /= BLOCK
    /\ denied_users = {}

(***************************************************************************)
(* C36: for a rule verdict other than Block the policy decision depends    *)
(* on the model score and the thresholds only.                             *)
(***************************************************************************)
\* C36: when decide was called with a rule result that is no block, a call
\* with the same model score and any other rule result that is no block,
\* whatever its action and flags, returns the same decision_code and the
\* same score; with the same flags it returns the same reasons as well
C36_RuleVerdictIrrelevant ==
    (policy_last.op = "decide" /\ policy_last.action /= BLOCK) =>
        \A r \in VerdictResults :
            r.action /= BLOCK =>
                LET d == decide_rules(thresholds, r, policy_last.ml_score) IN
                /\ d.decision_code = policy_last.decision_code
                /\ d.score = policy_last.score
                /\ d.score = policy_last.ml_score
                /\ r.flags = policy_last.flags => d.reasons = policy_last.reasons

\* C36 witness: the rules asked for a review with two flags, and decide
\* returns Allow with the model score, naming the flags in its reasons
C36_Witness ==
    /\ policy_last.op = "decide"
    /\ policy_last.action = REVIEW
    /\ Len(policy_last.flags) = 2
    /\ policy_last.decision_code = 0
    /\ policy_last.score = 20
    /\ Len(policy_last.reasons) = 3

(***************************************************************************)
(* C37: the detector's blocked set changes only through unblock_source.    *)
(***************************************************************************)
\* the step is an unblock_source call for source s
IsUnblockOf(s) ==
    /\ sec_last'.op = "unblock_source"
    /\ sec_last'.source_id = s
    /\ sec_calls' = sec_calls
    /\ sec_ticks' = sec_ticks

\* C37: a source in the blocked set is still in it after every step that is
\* not an unblock_source call for it, whatever was observed; an
\* unblock_source call returns true exactly when the source was in the set,
\* and is_source_blocked is false after it
C37_BlockedUntilUnblocked ==
    [][\A s \in SecSources :
          /\ (sec_is_source_blocked(SecState, s) /\ ~IsUnblockOf(s))
                => sec_is_source_blocked(SecState, s)'
          /\ IsUnblockOf(s) =>
                /\ sec_last'.returned = sec_is_source_blocked(SecState, s)
                /\ ~sec_is_source_blocked(SecState, s)']_vars

\* C37 witness: a blocked source has authenticated with success and is still
\* blocked, its failed attempts cleared
C37_Witness ==
    /\ sec_last.op = "monitor_authentication"
    /\ sec_last.args.success
    /\ sec_last.source_id \in blocked_sources
    /\ failed_auth_tracking[sec_last.source_id] = <<>>
    /\ sec_calls >= 2

\* C37 witness of unblocking: unblock_source has returned true for a source,
\* which is not blocked any more
C37_UnblockedWitness ==
    /\ sec_last.op = "unblock_source"
    /\ sec_last.returned
    /\ sec_last.source_id \notin blocked_sources

(***************************************************************************)
(* C38: the middleware admits or turns away by the rate limiter alone.     *)
(***************************************************************************)
\* the step is a request through the middleware
IsRequest == mw_requests' = mw_requests + 1

\* what check_rate_limit answers for one token, from the limiter's fields
LimiterAdmits(s) ==
    LET config == tier_configs[TierOf(s)]
        bucket == IF buckets[s] = NoBucket THEN NewBucket(config, now) ELSE buckets[s]
    IN ~StillBlocked(blocked_until[s], now) /\ consume(bucket, 1, now)[2]

\* the request is one the middleware hands to a monitor
Observed ==
    /\ mw_last'.failing /= "log_api_access"
    /\ mw_last'.header /= "X-Records-Accessed"
    /\ ~mw_last'.processed \/ should_monitor(mw_last'.path, mw_last'.method)

\* C38: a request is turned away exactly when it is subject to the rate limit
\* and the limiter's own state rejects it, whether or not the source is in
\* the detector's blocked set or has an active record in the block list of
\* the store; and a request of a source of the blocked set is observed by a
\* monitor like any other
C38_DeniedByLimiterOnly ==
    [][IsRequest =>
          /\ ~mw_last'.processed
                <=> (mw_last'.should_rate_limit /\ ~LimiterAdmits(MWSource))
          /\ (MWSource \in blocked_sources /\ Observed) =>
                /\ sec_calls' = sec_calls + 1
                /\ sec_last'.source_id = MWSource
                /\ sec_last'.op \in {"monitor_api_request", "monitor_authentication"}]_vars

\* C38 witness: the second request of a source that the first request put in
\* the detector's blocked set and in the block list of the store passes the
\* rate limit check, is routed and answered 200, and is observed
C38_Witness ==
    /\ mw_requests = 2
    /\ mw_last.checked /\ mw_last.allowed /\ mw_last.processed
    /\ mw_last.status_code = 200
    /\ MWSource \in blocked_sources
    /\ is_source_blocked(blocked_sources_table, MWSource)
    /\ sec_last.op = "monitor_api_request"
    /\ sec_last.event = NoEvent
    /\ Len(api_request_history[MWSource]) > 0

=============================================================================
